---- MODULE Spec2Model ----
(***************************************************************************)
(* A model of gram (vb-ui/gram): text diagrams rendered as box-and-line    *)
(* art.  Each pipeline is modelled under its own specification:            *)
(*   SpecCanvas      the bounds-checked character grid (both Canvas types),*)
(*   SpecGantt       gantt::layout::layout on a parsed chart,              *)
(*   SpecSeq         layout::calculate_sequence_layout and renderer::render*)
(*   SpecGraph       graph::layout::assign_ranks,                          *)
(*   SpecText        tokenizer::tokenize and parser::parse,                *)
(*   SpecGanttParse  gantt::parser::parse,                                 *)
(*   SpecGit         git_graph::parser::parse,                             *)
(*   SpecGanttRender gantt::layout::layout and gantt::renderer::render.    *)
(* SpecGraphFair is SpecGraph with the fairness of a sequential run.       *)
(* usize values are integers; a value below zero stands for the wrapped    *)
(* value 2^64 + v that a release build computes on underflow.              *)
(***************************************************************************)
EXTENDS Integers, Sequences, FiniteSets, TLC

VARIABLES
    canvas,        \* Canvas {grid, width, height}
    canvasKind,    \* which Canvas type the harness drives: "seq" or "gantt"
    lastOp,        \* the last set_char/get_char call and its outcome
    opCount,       \* number of calls made so far
    chart,         \* GanttChart {tasks}: the input of gantt::layout::layout
    ganttPc,       \* "parsed", then "laid" or "panic"
    ganttLayout,   \* GanttLayout {task_layouts, tick_layouts, width, height}
    diagram,       \* SequenceDiagram {participants, edges}
    overflowChecks,\* TRUE in a build with overflow checks (debug), else release
    seqPc,         \* "parsed", "laid", then "rendered" or "panic"
    seqLayout,     \* SequenceDiagramLayout
    written,       \* number of set_char calls render completed
    graph,         \* Graph {nodes, edges}: the input of assign_ranks
    graphPc,       \* "start", "while", "for", then "returned"
    in_degrees,    \* assign_ranks: in_degrees
    queue,         \* assign_ranks: queue
    ranks,         \* assign_ranks: ranks
    current_rank,  \* assign_ranks: current_rank
    layerLeft,     \* iterations left of `for _ in 0..current_layer_size`
    seeded,        \* the order in which in_degrees was iterated (line 35)
    seqInput,      \* the text given to tokenizer::tokenize, as its lines
    textPc,        \* "input", "tokenized", then "parsed"
    tokenized,     \* Result<Vec<Token>, TokenizeError> of tokenize
    parsed,        \* Result<SequenceDiagram, ParseError> of parser::parse
    ganttInput,    \* the text given to gantt::parser::parse, as its lines
    gpIndex,       \* number of lines the loop of parse has consumed
    gpTasks,       \* parse: tasks
    gpPc,          \* "parsing", then "ok", "err" or "panic"
    gpError,        \* the ParseError returned, if any
    gitInput,      \* the lines of the text that git_graph::parser::parse has read
    git_graph,     \* parse: git_graph, branch name -> Branch
    current_branch_name,\* parse: current_branch_name
    current_index, \* parse: current_index
    gitPc,         \* "parsing", then "ok" or "err"
    gitError       \* the ParseError returned, if any

canvasVars == <<canvas, canvasKind, lastOp, opCount>>

ganttVars == <<chart, ganttPc, ganttLayout>>

seqVars == <<diagram, overflowChecks, seqPc, seqLayout, written>>

graphVars == <<graph, graphPc, in_degrees, queue, ranks, current_rank, layerLeft,
               seeded>>

textVars == <<seqInput, textPc, tokenized, parsed>>

ganttParseVars == <<ganttInput, gpIndex, gpTasks, gpPc, gpError>>

gitVars == <<gitInput, git_graph, current_branch_name, current_index, gitPc, gitError>>

vars == <<canvas, canvasKind, lastOp, opCount, chart, ganttPc, ganttLayout,
          diagram, overflowChecks, seqPc, seqLayout, written,
          graph, graphPc, in_degrees, queue, ranks, current_rank, layerLeft,
          seeded,
          seqInput, textPc, tokenized, parsed,
          ganttInput, gpIndex, gpTasks, gpPc, gpError,
          gitInput, git_graph, current_branch_name, current_index, gitPc, gitError>>

(***************************************************************************)
(* Bounds of the model.                                                    *)
(***************************************************************************)
MaxCanvasWidth == 2
MaxCanvasHeight == 2
MaxCanvasOps == 2
MaxTasks == 2
MaxDay == 7
MaxDiagramSize == 4

CanvasChars == {"x", "o"}

(***************************************************************************)
(* usize arithmetic.                                                       *)
(***************************************************************************)
\* a < b on usize, with wrapped (negative) representatives being huge
ULess(a, b) ==
    /\ a >= 0
    /\ (b < 0 \/ a < b)

Max(a, b) == IF a >= b THEN a ELSE b

Min(a, b) == IF a <= b THEN a ELSE b

(***************************************************************************)
(* Canvas (renderer.rs and gantt/renderer.rs hold the same type twice).    *)
(***************************************************************************)
CanvasNew(width, height) ==
    [grid   |-> [y \in 0..(height - 1) |-> [x \in 0..(width - 1) |-> " "]],
     width  |-> width,
     height |-> height]

NoCanvas == CanvasNew(0, 0)

\* mutant: an out-of-range write is clipped silently instead of panicking
SetCharClipped(cv, x, y, ch) ==
    IF ULess(y, cv.height) /\ ULess(x, cv.width)
    THEN [panic |-> FALSE, canvas |-> [cv EXCEPT !.grid[y][x] = ch]]
    ELSE [panic |-> FALSE, canvas |-> cv]

SetChar(cv, x, y, ch) ==
    IF ULess(y, cv.height) /\ ULess(x, cv.width)
    THEN [panic |-> FALSE, canvas |-> [cv EXCEPT !.grid[y][x] = ch]]
    ELSE [panic |-> TRUE, canvas |-> cv]

GetChar(cv, x, y) ==
    IF ULess(y, cv.height) /\ ULess(x, cv.width)
    THEN [panic |-> FALSE, ch |-> cv.grid[y][x]]
    ELSE [panic |-> TRUE, ch |-> ""]

GanttSetChar(cv, x, y, ch) ==
    IF ULess(y, cv.height) /\ ULess(x, cv.width)
    THEN [panic |-> FALSE, canvas |-> [cv EXCEPT !.grid[y][x] = ch]]
    ELSE [panic |-> TRUE, canvas |-> cv]

GanttGetChar(cv, x, y) ==
    IF ULess(y, cv.height) /\ ULess(x, cv.width)
    THEN [panic |-> FALSE, ch |-> cv.grid[y][x]]
    ELSE [panic |-> TRUE, ch |-> ""]

(***************************************************************************)
(* Gantt layout (gantt/layout.rs).  A NaiveDate is its number of days      *)
(* since 2026-01-01.                                                       *)
(***************************************************************************)
GANTT_MARGIN_LEFT == 6
GANTT_MARGIN_RIGHT == 6
GANTT_MARGIN_TOP == 2
GANTT_MARGIN_BOTTOM == 3
CHART_WIDTH == 120
TASK_HEIGHT == 3
MIN_TICK_SPACING == 12

NaiveDateMax == 95005782
NaiveDateMin == -96485747

RECURSIVE Gcd(_, _)
Gcd(a, b) == IF b = 0 THEN a ELSE Gcd(b, a % b)

\* Ratio::new panics on a zero denominator and otherwise reduces
RatioNewPanics(numer, denom) == denom = 0

RatioNew(numer, denom) ==
    LET g == Gcd(numer, denom)
    IN  [numer |-> numer \div g, denom |-> denom \div g]

RatioFromInteger(n) == [numer |-> n, denom |-> 1]

\* Ratio * Ratio: cross-reduce, multiply, reduce
RatioMul(a, b) ==
    LET gcd_ad == Gcd(a.numer, b.denom)
        gcd_bc == Gcd(a.denom, b.numer)
    IN  RatioNew((a.numer \div gcd_ad) * (b.numer \div gcd_bc),
                 (a.denom \div gcd_bc) * (b.denom \div gcd_ad))

RatioToInteger(r) == r.numer \div r.denom

RECURSIVE FoldMinStart(_, _, _)
FoldMinStart(tasks, i, acc) ==
    IF i > Len(tasks) THEN acc
    ELSE FoldMinStart(tasks, i + 1, Min(acc, tasks[i].start_date))

RECURSIVE FoldMaxEnd(_, _, _)
FoldMaxEnd(tasks, i, acc) ==
    IF i > Len(tasks) THEN acc
    ELSE FoldMaxEnd(tasks, i + 1, Max(acc, tasks[i].end_date))

find_date_range(ch) ==
    [min_date |-> FoldMinStart(ch.tasks, 1, NaiveDateMax),
     max_date |-> FoldMaxEnd(ch.tasks, 1, NaiveDateMin)]

\* mutant: the ratio is truncated to whole pixels per day before the multiply
date_to_x_TruncatedRatio(date, min_date, pixels_per_day) ==
    (date - min_date) * RatioToInteger(pixels_per_day)

\* mutant: the product is rounded up instead of truncated
date_to_x_RoundedUp(date, min_date, pixels_per_day) ==
    LET pixels == RatioMul(RatioFromInteger(date - min_date), pixels_per_day)
    IN  (pixels.numer + pixels.denom - 1) \div pixels.denom

date_to_x(date, min_date, pixels_per_day) ==
    LET days   == RatioFromInteger(date - min_date)
        pixels == RatioMul(days, pixels_per_day)
    IN  RatioToInteger(pixels)

\* mutant: every task is laid out on the first row
layout_tasks_SameRow(ch, min_date, pixels_per_day) ==
    [i \in 1..Len(ch.tasks) |->
        [x_start |-> date_to_x(ch.tasks[i].start_date, min_date, pixels_per_day)
                        + GANTT_MARGIN_LEFT,
         x_end   |-> date_to_x(ch.tasks[i].end_date, min_date, pixels_per_day)
                        + GANTT_MARGIN_LEFT,
         y       |-> GANTT_MARGIN_TOP,
         name    |-> ch.tasks[i].name]]

layout_tasks(ch, min_date, pixels_per_day) ==
    [i \in 1..Len(ch.tasks) |->
        [x_start |-> date_to_x(ch.tasks[i].start_date, min_date, pixels_per_day)
                        + GANTT_MARGIN_LEFT,
         x_end   |-> date_to_x(ch.tasks[i].end_date, min_date, pixels_per_day)
                        + GANTT_MARGIN_LEFT,
         y       |-> GANTT_MARGIN_TOP + (i - 1) * TASK_HEIGHT,
         name    |-> ch.tasks[i].name]]

\* mutant: one tick per MIN_TICK_SPACING columns plus the two end ticks
ticks_count_WithEnds == Max(CHART_WIDTH \div MIN_TICK_SPACING, 2) + 2

ticks_count == Max(CHART_WIDTH \div MIN_TICK_SPACING, 2)

\* mutant: each tick date is scaled from the whole span, not stepped by days_per_tick
layout_ticks_ScaledDays(min_date, total_days) ==
    LET pixels_per_tick == CHART_WIDTH \div (ticks_count - 1)
    IN  [k \in 1..ticks_count |->
            [x    |-> (k - 1) * pixels_per_tick + GANTT_MARGIN_LEFT,
             date |-> min_date + (total_days * (k - 1)) \div (ticks_count - 1)]]

layout_ticks(min_date, total_days) ==
    LET days_per_tick   == total_days \div (ticks_count - 1)
        pixels_per_tick == CHART_WIDTH \div (ticks_count - 1)
    IN  [k \in 1..ticks_count |->
            [x    |-> (k - 1) * pixels_per_tick + GANTT_MARGIN_LEFT,
             date |-> min_date + days_per_tick * (k - 1)]]

total_days_of(ch) ==
    LET range == find_date_range(ch)
    IN  range.max_date - range.min_date

\* layout panics where Ratio::new(CHART_WIDTH, total_days) does
layout_panics(ch) == RatioNewPanics(CHART_WIDTH, total_days_of(ch))

layout(ch) ==
    LET range          == find_date_range(ch)
        total_days     == range.max_date - range.min_date
        pixels_per_day == RatioNew(CHART_WIDTH, total_days)
    IN  [task_layouts |-> layout_tasks(ch, range.min_date, pixels_per_day),
         tick_layouts |-> layout_ticks(range.min_date, total_days),
         width        |-> CHART_WIDTH + GANTT_MARGIN_LEFT + GANTT_MARGIN_RIGHT,
         height       |-> TASK_HEIGHT * Len(ch.tasks) + GANTT_MARGIN_TOP
                             + GANTT_MARGIN_BOTTOM]

NoGanttLayout == [task_layouts |-> <<>>, tick_layouts |-> <<>>,
                  width |-> 0, height |-> 0]

(***************************************************************************)
(* Sequence-diagram layout (layout.rs).  A string is a sequence of chars;  *)
(* "W" stands for a double-width glyph, every other char is one column.    *)
(***************************************************************************)
EDGE_SPACING == 1
PARTICIPANT_HEIGHT == 3
PARTICIPANT_PADDING_X == 1
MESSAGE_PADDING_X == 1
BORDER_WIDTH == 1
MARGIN_LEFT == 1
MARGIN_RIGHT == 1
MARGIN_TOP == 1
MARGIN_BOTTOM == 1

CharWidth(c) == IF c = "W" THEN 2 ELSE 1

\* UnicodeWidthStr::width
RECURSIVE Width(_)
Width(str) == IF str = <<>> THEN 0 ELSE CharWidth(Head(str)) + Width(Tail(str))

NoMessage == [some |-> FALSE, text |-> <<>>]

SomeMessage(text) == [some |-> TRUE, text |-> text]

\* Iterator::position: the first index holding the participant (0 if none)
RECURSIVE Position(_, _, _)
Position(parts, name, i) ==
    IF i > Len(parts) THEN 0
    ELSE IF parts[i] = name THEN i
    ELSE Position(parts, name, i + 1)

RECURSIVE CountWithMessage(_, _)
CountWithMessage(edges, i) ==
    IF i > Len(edges) THEN 0
    ELSE (IF edges[i].message.some THEN 1 ELSE 0) + CountWithMessage(edges, i + 1)

\* mutant: the fold never takes the labeled arm
count_edges_AllWithout(d) == [with |-> 0, without |-> Len(d.edges)]

count_edges(d) ==
    LET with == CountWithMessage(d.edges, 1)
    IN  [with |-> with, without |-> Len(d.edges) - with]

RECURSIVE MaxEdgeWidthFrom(_, _, _, _, _)
MaxEdgeWidthFrom(edges, part1, part2, i, max_width) ==
    IF i > Len(edges) THEN max_width
    ELSE LET edge == edges[i]
             connects == \/ (edge.from = part1 /\ edge.to = part2)
                         \/ (edge.from = part2 /\ edge.to = part1)
         IN  MaxEdgeWidthFrom(edges, part1, part2, i + 1,
                 IF connects /\ edge.message.some
                 THEN Max(max_width, Width(edge.message.text) + MESSAGE_PADDING_X * 2)
                 ELSE max_width)

max_edge_width(edges, part1, part2) == MaxEdgeWidthFrom(edges, part1, part2, 1, 0)

\* mutant: the gap is the label's width alone, without the extra column
participant_space_NoExtraColumn(d, i) ==
    LET left_part  == d.participants[i - 1]
        right_part == d.participants[i]
        space_without_message ==
            Width(left_part) \div 2 + (2 * PARTICIPANT_PADDING_X)
                + (2 * BORDER_WIDTH) + (Width(right_part) + 1) \div 2
        space_with_message == max_edge_width(d.edges, left_part, right_part)
    IN  Max(space_without_message, space_with_message - 2)

\* mutant: the right half-width is rounded down instead of up
participant_space_RoundedDown(d, i) ==
    LET left_part  == d.participants[i - 1]
        right_part == d.participants[i]
        space_without_message ==
            Width(left_part) \div 2 + (2 * PARTICIPANT_PADDING_X)
                + (2 * BORDER_WIDTH) + Width(right_part) \div 2
        space_with_message == max_edge_width(d.edges, left_part, right_part)
    IN  Max(space_without_message, space_with_message + 1)

\* the distance from the center of participant i-1 to that of participant i
participant_space(d, i) ==
    LET left_part  == d.participants[i - 1]
        right_part == d.participants[i]
        space_without_message ==
            Width(left_part) \div 2 + (2 * PARTICIPANT_PADDING_X)
                + (2 * BORDER_WIDTH) + (Width(right_part) + 1) \div 2
        space_with_message == max_edge_width(d.edges, left_part, right_part)
    IN  Max(space_without_message, space_with_message + 1)

RECURSIVE PositionsFrom(_, _, _)
PositionsFrom(d, i, acc) ==
    IF i > Len(d.participants) THEN acc
    ELSE PositionsFrom(d, i + 1, Append(acc, acc[i - 1] + participant_space(d, i)))

calculate_horizontal_positions(d) ==
    IF d.participants = <<>> THEN <<>>
    ELSE PositionsFrom(d, 2,
            << (MARGIN_LEFT - 1) + BORDER_WIDTH + PARTICIPANT_PADDING_X
                  + Width(d.participants[1]) \div 2 >>)

calculate_participant_layouts(total_height, d, positions) ==
    [i \in 1..Len(d.participants) |->
        [name         |-> d.participants[i],
         center_x     |-> positions[i],
         top_box_y    |-> MARGIN_TOP,
         bottom_box_y |-> total_height - MARGIN_BOTTOM,
         width        |-> Width(d.participants[i]) + PARTICIPANT_PADDING_X * 2
                             + BORDER_WIDTH * 2]]

\* mutant: a label does not move current_y further down
EdgeRow_NoLabelRow(edges, i) ==
    MARGIN_TOP + PARTICIPANT_HEIGHT + EDGE_SPACING + (i - 1) * (EDGE_SPACING + 1)

\* current_y when edge i is laid out
RECURSIVE EdgeRow(_, _)
EdgeRow(edges, i) ==
    IF i = 1 THEN MARGIN_TOP + PARTICIPANT_HEIGHT + EDGE_SPACING
    ELSE EdgeRow(edges, i - 1) + EDGE_SPACING + 1
            + (IF edges[i - 1].message.some THEN 1 ELSE 0)

arrow_direction(d, edge) ==
    LET from_index == Position(d.participants, edge.from, 1)
        to_index   == Position(d.participants, edge.to, 1)
    IN  IF from_index < to_index THEN "Right" ELSE "Left"

calculate_edge_layouts(d, positions) ==
    [i \in 1..Len(d.edges) |->
        LET edge       == d.edges[i]
            from_index == Position(d.participants, edge.from, 1)
            to_index   == Position(d.participants, edge.to, 1)
            direction  == arrow_direction(d, edge)
        IN  [start_x   |-> IF direction = "Right" THEN positions[from_index] + 1
                           ELSE positions[from_index] - 1,
             end_x     |-> IF direction = "Right" THEN positions[to_index] - 1
                           ELSE positions[to_index] + 1,
             y         |-> EdgeRow(d.edges, i),
             direction |-> direction,
             message   |-> edge.message]]

calculate_lifeline_layouts(total_height, positions) ==
    [i \in 1..Len(positions) |->
        [start_y |-> MARGIN_TOP + PARTICIPANT_HEIGHT,
         end_y   |-> total_height - MARGIN_BOTTOM - PARTICIPANT_HEIGHT - EDGE_SPACING,
         x       |-> positions[i]]]

calculate_sequence_layout(d) ==
    LET counts       == count_edges(d)
        total_height == (counts.with + counts.without + 1) * EDGE_SPACING
                           + counts.with * 2 + counts.without * 1
                           + PARTICIPANT_HEIGHT * 2 + MARGIN_TOP + MARGIN_BOTTOM
        positions    == calculate_horizontal_positions(d)
        last_part_position ==
            IF positions = <<>> THEN 0 ELSE positions[Len(positions)]
        last_part_width ==
            (IF d.participants = <<>> THEN 0
             ELSE Width(d.participants[Len(d.participants)]))
                + PARTICIPANT_PADDING_X * 2 + BORDER_WIDTH * 2
    IN  [participant_layouts |->
             calculate_participant_layouts(total_height, d, positions),
         lifeline_layouts |-> calculate_lifeline_layouts(total_height, positions),
         edge_layouts     |-> calculate_edge_layouts(d, positions),
         width  |-> last_part_position + last_part_width \div 2 + MARGIN_RIGHT + 1,
         height |-> total_height]

NoSeqLayout == [participant_layouts |-> <<>>, lifeline_layouts |-> <<>>,
                edge_layouts |-> <<>>, width |-> 0, height |-> 0]

(***************************************************************************)
(* Sequence-diagram renderer (renderer.rs).  render is modelled by the     *)
(* set_char calls it makes, in order; the box-drawing glyphs are named.    *)
(***************************************************************************)
GLYPH_TOP_LEFT == "box-top-left"
GLYPH_TOP_RIGHT == "box-top-right"
GLYPH_BOTTOM_LEFT == "box-bottom-left"
GLYPH_BOTTOM_RIGHT == "box-bottom-right"
GLYPH_HORIZONTAL == "box-horizontal"
GLYPH_VERTICAL == "box-vertical"
GLYPH_TEE_DOWN == "box-tee-down"
GLYPH_TEE_UP == "box-tee-up"

Cell(x, y, ch) == [x |-> x, y |-> y, ch |-> ch]

\* stands for the panic "attempt to subtract with overflow" of a checked build
OverflowOp == Cell(-1, -1, "overflow")

\* for x in from..to_excl { set_char(x, y, ch) }
HRule(from, to_excl, y, ch) ==
    [k \in 1..Max(0, to_excl - from) |-> Cell(from + k - 1, y, ch)]

\* for (i, ch) in text.chars().enumerate() { set_char(start_x + i, y, ch) }
TextOps(start_x, y, text) ==
    [k \in 1..Len(text) |-> Cell(start_x + k - 1, y, text[k])]

draw_box(checks, center_x, left_x, right_x, y, name, is_top_box) ==
    << Cell(left_x, y, GLYPH_TOP_LEFT) >>
    \o HRule(left_x + 1, right_x, y, GLYPH_HORIZONTAL)
    \o << Cell(right_x, y, GLYPH_TOP_RIGHT) >>
    \o << Cell(left_x, y + 1, GLYPH_VERTICAL) >>
    \o (IF Width(name) = 0
        THEN (IF checks THEN << OverflowOp >> ELSE << >>)
        ELSE IF checks /\ center_x < (Width(name) - 1) \div 2
        THEN << OverflowOp >>
        ELSE TextOps(center_x - (Width(name) - 1) \div 2, y + 1, name))
    \o << Cell(right_x, y + 1, GLYPH_VERTICAL) >>
    \o << Cell(left_x, y + 2, GLYPH_BOTTOM_LEFT) >>
    \o HRule(left_x + 1, right_x, y + 2, GLYPH_HORIZONTAL)
    \o << Cell(right_x, y + 2, GLYPH_BOTTOM_RIGHT) >>
    \o << IF is_top_box THEN Cell(center_x, y + 2, GLYPH_TEE_DOWN)
          ELSE Cell(center_x, y, GLYPH_TEE_UP) >>

\* left_x and right_x as draw_participant_boxes computes them
box_left_x(pl) == pl.center_x - (pl.width + 1) \div 2 + 1

box_right_x(pl) == box_left_x(pl) + pl.width - 1

draw_participant_boxes(checks, pl) ==
    LET half_width == (pl.width + 1) \div 2
    IN  IF checks /\ pl.center_x < half_width
        THEN << OverflowOp >>
        ELSE draw_box(checks, pl.center_x, box_left_x(pl), box_right_x(pl),
                      pl.top_box_y, pl.name, TRUE)
             \o draw_box(checks, pl.center_x, box_left_x(pl), box_right_x(pl),
                         pl.bottom_box_y - PARTICIPANT_HEIGHT, pl.name, FALSE)

draw_lifeline(ll) ==
    [k \in 1..Max(0, ll.end_y - ll.start_y + 1) |->
        Cell(ll.x, ll.start_y + k - 1, GLYPH_VERTICAL)]

\* draw_edge's start_x and end_x after the swap for a leftward edge
edge_start_x(el) == IF el.direction = "Right" THEN el.start_x ELSE el.end_x

edge_end_x(el) == IF el.direction = "Right" THEN el.end_x ELSE el.start_x

edge_y(el) == IF el.message.some THEN el.y + 1 ELSE el.y

\* mutant: the arrowhead is put at the source's end of the line
arrowhead_x_AtSource(el) ==
    IF el.direction = "Right" THEN edge_start_x(el) ELSE edge_end_x(el)

arrowhead_x(el) ==
    IF el.direction = "Right" THEN edge_end_x(el) ELSE edge_start_x(el)

arrow_head(el) == IF el.direction = "Right" THEN ">" ELSE "<"

message_start_x(el) ==
    (edge_start_x(el) + edge_end_x(el)) \div 2 - Width(el.message.text) \div 2

\* the set_char calls of draw_edge up to and including the arrowhead
draw_edge_line(el) ==
    [k \in 1..Max(0, edge_end_x(el) - edge_start_x(el) + 1) |->
        Cell(edge_start_x(el) + k - 1, edge_y(el), GLYPH_HORIZONTAL)]
    \o << Cell(arrowhead_x(el), edge_y(el), arrow_head(el)) >>

draw_edge(checks, el) ==
    draw_edge_line(el)
    \o (IF ~el.message.some THEN << >>
        ELSE IF checks /\ message_start_x(el) < 0 THEN << OverflowOp >>
        ELSE TextOps(message_start_x(el), el.y, el.message.text))

RECURSIVE Flatten(_, _)
Flatten(seqs, i) ==
    IF i > Len(seqs) THEN << >> ELSE seqs[i] \o Flatten(seqs, i + 1)

\* the calls of render's first two loops
render_boxes_and_lifelines(checks, lay) ==
    Flatten([i \in 1..Len(lay.participant_layouts) |->
                draw_participant_boxes(checks, lay.participant_layouts[i])], 1)
    \o Flatten([i \in 1..Len(lay.lifeline_layouts) |->
                draw_lifeline(lay.lifeline_layouts[i])], 1)

\* the calls of the edge loop up to and including edge n
render_edges(checks, lay, n) ==
    Flatten([i \in 1..n |-> draw_edge(checks, lay.edge_layouts[i])], 1)

render_calls(checks, lay) ==
    render_boxes_and_lifelines(checks, lay)
    \o render_edges(checks, lay, Len(lay.edge_layouts))

\* whether a call panics: an overflow, or set_char's range check failing
\* (set_char leaves width and height alone, so the fresh canvas decides it)
CallPanics(cv, call) ==
    \/ call = OverflowOp
    \/ ~(ULess(call.y, cv.height) /\ ULess(call.x, cv.width))

\* the index of the first call that panics, Len(calls) + 1 if none does
FirstPanic(cv, calls) ==
    LET bad == {i \in 1..Len(calls) : CallPanics(cv, calls[i])}
    IN  IF bad = {} THEN Len(calls) + 1
        ELSE CHOOSE i \in bad : \A j \in bad : i <= j

\* the canvas after calls lo..hi, none of which panics, in order (the first
\* half is written before the second half is looked at)
RECURSIVE WriteCalls(_, _, _, _)
WriteCalls(cv, calls, lo, hi) ==
    IF lo > hi THEN cv
    ELSE IF lo = hi
    THEN SetChar(cv, calls[lo].x, calls[lo].y, calls[lo].ch).canvas
    ELSE LET mid  == (lo + hi) \div 2
             left == WriteCalls(cv, calls, lo, mid)
         IN  IF left.height = cv.height
             THEN WriteCalls(left, calls, mid + 1, hi)
             ELSE left

\* run the calls in order until one panics
RunCalls(cv, calls) ==
    LET stop == FirstPanic(cv, calls)
    IN  [canvas  |-> WriteCalls(cv, calls, 1, stop - 1),
         written |-> stop - 1,
         outcome |-> IF stop > Len(calls) THEN "rendered"
                     ELSE IF calls[stop] = OverflowOp THEN "panic-overflow"
                     ELSE "panic-index"]

render(checks, lay) ==
    RunCalls(CanvasNew(lay.width, lay.height), render_calls(checks, lay))

(***************************************************************************)
(* SpecCanvas: a caller makes arbitrary set_char / get_char calls on a     *)
(* fresh canvas; a panic ends the program.                                 *)
(***************************************************************************)
NoOp == [op |-> "none", x |-> 0, y |-> 0, ch |-> "", panic |-> FALSE,
         before |-> NoCanvas.grid]

\* the value of a pipeline's variables under another pipeline's specification
CanvasIdle ==
    /\ canvas = NoCanvas
    /\ canvasKind = "none"
    /\ lastOp = NoOp
    /\ opCount = 0

GanttIdle ==
    /\ chart = [tasks |-> <<>>]
    /\ ganttPc = "idle"
    /\ ganttLayout = NoGanttLayout

SeqIdle ==
    /\ diagram = [participants |-> <<>>, edges |-> <<>>]
    /\ overflowChecks = FALSE
    /\ seqPc = "idle"
    /\ seqLayout = NoSeqLayout
    /\ written = 0

GraphIdle ==
    /\ graph = [nodes |-> {}, edges |-> <<>>]
    /\ graphPc = "idle"
    /\ in_degrees = <<>>
    /\ queue = <<>>
    /\ ranks = <<>>
    /\ current_rank = 0
    /\ layerLeft = 0
    /\ seeded = << >>

TextIdle ==
    /\ seqInput = <<>>
    /\ textPc = "idle"
    /\ tokenized = [ok |-> TRUE, tokens |-> <<>>]
    /\ parsed = [ok |-> TRUE, participants |-> <<>>, edges |-> <<>>]

GanttParseIdle ==
    /\ ganttInput = <<>>
    /\ gpIndex = 0
    /\ gpTasks = <<>>
    /\ gpPc = "idle"
    /\ gpError = [line |-> 0, message |-> "", arg |-> <<>>]

GitIdle ==
    /\ gitInput = <<>>
    /\ git_graph = <<>>
    /\ current_branch_name = <<>>
    /\ current_index = 0
    /\ gitPc = "idle"
    /\ gitError = [line |-> 0, message |-> "", arg |-> <<>>]

CanvasInit ==
    /\ canvasKind \in {"seq", "gantt"}
    /\ \E w \in 1..MaxCanvasWidth, h \in 1..MaxCanvasHeight :
          canvas = CanvasNew(w, h)
    /\ lastOp = NoOp
    /\ opCount = 0
    /\ GanttIdle
    /\ SeqIdle
    /\ GraphIdle
    /\ TextIdle
    /\ GanttParseIdle
    /\ GitIdle

CanvasSetChar ==
    /\ ~lastOp.panic
    /\ opCount < MaxCanvasOps
    /\ \E x \in 0..MaxCanvasWidth, y \in 0..MaxCanvasHeight, ch \in CanvasChars :
          LET r == IF canvasKind = "seq"
                   THEN SetChar(canvas, x, y, ch)
                   ELSE GanttSetChar(canvas, x, y, ch)
          IN  /\ canvas' = r.canvas
              /\ lastOp' = [op |-> "set", x |-> x, y |-> y, ch |-> ch,
                            panic |-> r.panic, before |-> canvas.grid]
    /\ opCount' = opCount + 1
    /\ UNCHANGED canvasKind
    /\ UNCHANGED ganttVars
    /\ UNCHANGED seqVars
    /\ UNCHANGED graphVars
    /\ UNCHANGED textVars
    /\ UNCHANGED ganttParseVars
    /\ UNCHANGED gitVars

CanvasGetChar ==
    /\ ~lastOp.panic
    /\ opCount < MaxCanvasOps
    /\ \E x \in 0..MaxCanvasWidth, y \in 0..MaxCanvasHeight :
          LET r == IF canvasKind = "seq"
                   THEN GetChar(canvas, x, y)
                   ELSE GanttGetChar(canvas, x, y)
          IN  lastOp' = [op |-> "get", x |-> x, y |-> y, ch |-> r.ch,
                         panic |-> r.panic, before |-> canvas.grid]
    /\ opCount' = opCount + 1
    /\ UNCHANGED <<canvas, canvasKind>>
    /\ UNCHANGED ganttVars
    /\ UNCHANGED seqVars
    /\ UNCHANGED graphVars
    /\ UNCHANGED textVars
    /\ UNCHANGED ganttParseVars
    /\ UNCHANGED gitVars

CanvasNext ==
    \/ CanvasSetChar
    \/ CanvasGetChar

SpecCanvas == CanvasInit /\ [][CanvasNext]_vars

(***************************************************************************)
(* SpecGantt: layout is applied to a parsed chart (at least one task, every *)
(* task with end_date >= start_date, as gantt::parser::parse returns it).  *)
(***************************************************************************)
\* a task name is a sequence of chars
TaskNames == {<<"T", "a", "s", "k">>}

GanttTasks ==
    {[start_date |-> s, end_date |-> e, name |-> n] :
        s \in 0..MaxDay, e \in 0..MaxDay, n \in TaskNames}

\* the chart of test_layout: 2026-01-01 is day 0 and 2026-02-06 is day 36
FiveTaskChart ==
    [tasks |-> << [start_date |-> 0,  end_date |-> 4,  name |-> <<"D", "e", "s", "i", "g", "n">>],
                  [start_date |-> 4,  end_date |-> 14, name |-> <<"I", "m", "p", "l", "e", "m", "e", "n", "t", "a", "t", "i", "o", "n">>],
                  [start_date |-> 14, end_date |-> 19, name |-> <<"T", "e", "s", "t", "i", "n", "g">>],
                  [start_date |-> 19, end_date |-> 33, name |-> <<"B", "u", "g", "f", "i", "x">>],
                  [start_date |-> 33, end_date |-> 36, name |-> <<"R", "e", "l", "e", "a", "s", "e">>] >>]

\* spans around the multiples of ticks_count - 1 and around CHART_WIDTH
WideSpans == {8, 9, 10, 17, 18, 19, 100, 119, 120, 121, 250}

\* one task over a wide span, alone or after a one-day task
WideCharts ==
    {[tasks |-> <<[start_date |-> s, end_date |-> s + span, name |-> n]>>] :
        s \in {0, 3}, span \in WideSpans, n \in TaskNames} \cup
    {[tasks |-> <<[start_date |-> 1, end_date |-> 2, name |-> n],
                  [start_date |-> 0, end_date |-> span, name |-> n]>>] :
        span \in WideSpans, n \in TaskNames}

GanttCharts ==
    {FiveTaskChart} \cup WideCharts \cup
    {[tasks |-> t] : t \in
        {q \in UNION {[1..n -> GanttTasks] : n \in 1..MaxTasks} :
            \A i \in DOMAIN q : q[i].start_date <= q[i].end_date}}

GanttInit ==
    /\ chart \in GanttCharts
    /\ ganttPc = "parsed"
    /\ ganttLayout = NoGanttLayout
    /\ CanvasIdle
    /\ SeqIdle
    /\ GraphIdle
    /\ TextIdle
    /\ GanttParseIdle
    /\ GitIdle

GanttLayout ==
    /\ ganttPc = "parsed"
    /\ IF layout_panics(chart)
       THEN /\ ganttPc' = "panic"
            /\ UNCHANGED ganttLayout
       ELSE /\ ganttPc' = "laid"
            /\ ganttLayout' = layout(chart)
    /\ UNCHANGED chart
    /\ UNCHANGED canvasVars
    /\ UNCHANGED seqVars
    /\ UNCHANGED graphVars
    /\ UNCHANGED textVars
    /\ UNCHANGED ganttParseVars
    /\ UNCHANGED gitVars

GanttNext == GanttLayout

SpecGantt == GanttInit /\ [][GanttNext]_vars

(***************************************************************************)
(* SpecSeq: a parsed diagram is laid out and rendered.  Participants are   *)
(* distinct non-empty names, edges reference listed participants.          *)
(***************************************************************************)
SlotLetters == <<"A", "B", "C", "D", "E", "F", "G", "H">>

\* the names participant i may have: one column wide, or six with wide glyphs
NameVariants(i) == {<<SlotLetters[i]>>, <<SlotLetters[i], "W", "W", "x">>}

ParticipantLists(p) ==
    {ps \in [1..p -> UNION {NameVariants(i) : i \in 1..p}] :
        \A i \in 1..p : ps[i] \in NameVariants(i)}

\* no label, a label of 3 columns, or one of 6 columns in 5 chars
MessageChoices ==
    {NoMessage, SomeMessage(<<"a", "c", "k">>),
     SomeMessage(<<"L", "o", "g", "i", "W">>)}

EdgesOver(ps) ==
    LET names == {ps[i] : i \in DOMAIN ps}
    IN  {[from |-> f, to |-> t, message |-> m] :
            f \in names, t \in names, m \in MessageChoices}

Client == <<"C", "l", "i", "e", "n", "t">>

Server == <<"S", "e", "r", "v", "e", "r">>

\* Client -> Server: Login, then Client <- Server: LoginSuccess
LoginDiagram ==
    [participants |-> <<Client, Server>>,
     edges |-> << [from |-> Client, to |-> Server,
                   message |-> SomeMessage(<<"L", "o", "g", "i", "n">>)],
                  [from |-> Server, to |-> Client,
                   message |-> SomeMessage(<<"L", "o", "g", "i", "n", "S", "u",
                                             "c", "c", "e", "s", "s">>)] >>]

SeqDiagrams ==
    {LoginDiagram} \cup
    UNION {UNION {{[participants |-> ps, edges |-> es] :
                      es \in [1..(size - p) -> EdgesOver(ps)]} :
                  ps \in ParticipantLists(p)} :
           p \in 0..MaxDiagramSize, size \in 0..MaxDiagramSize}

SeqInit ==
    /\ diagram \in {d \in SeqDiagrams :
                      Len(d.participants) + Len(d.edges) <= MaxDiagramSize}
    /\ overflowChecks \in BOOLEAN
    /\ seqPc = "parsed"
    /\ seqLayout = NoSeqLayout
    /\ written = 0
    /\ canvas = NoCanvas
    /\ canvasKind = "seq"
    /\ lastOp = NoOp
    /\ opCount = 0
    /\ GanttIdle
    /\ GraphIdle
    /\ TextIdle
    /\ GanttParseIdle
    /\ GitIdle

SeqLayout ==
    /\ seqPc = "parsed"
    /\ seqLayout' = calculate_sequence_layout(diagram)
    /\ seqPc' = "laid"
    /\ UNCHANGED <<diagram, overflowChecks, written>>
    /\ UNCHANGED canvasVars
    /\ UNCHANGED ganttVars
    /\ UNCHANGED graphVars
    /\ UNCHANGED textVars
    /\ UNCHANGED ganttParseVars
    /\ UNCHANGED gitVars

SeqRender ==
    /\ seqPc = "laid"
    /\ LET r == render(overflowChecks, seqLayout)
       IN  /\ canvas' = r.canvas
           /\ written' = r.written
           /\ seqPc' = r.outcome
    /\ UNCHANGED <<diagram, overflowChecks, seqLayout>>
    /\ UNCHANGED <<canvasKind, lastOp, opCount>>
    /\ UNCHANGED ganttVars
    /\ UNCHANGED graphVars
    /\ UNCHANGED textVars
    /\ UNCHANGED ganttParseVars
    /\ UNCHANGED gitVars

SeqNext ==
    \/ SeqLayout
    \/ SeqRender

SpecSeq == SeqInit /\ [][SeqNext]_vars

(***************************************************************************)
(* C1: on a canvas of size >= 1x1, set_char and get_char succeed exactly   *)
(* when x < width and y < height and panic otherwise; a set_char that      *)
(* panics leaves the grid as it was (nothing is clipped silently), and a   *)
(* successful one changes exactly the addressed cell.                      *)
(***************************************************************************)
C1_InRange(op) == op.x < canvas.width /\ op.y < canvas.height

C1_CanvasBoundsChecked ==
    /\ canvas.width >= 1 /\ canvas.height >= 1
    /\ lastOp.op # "none" => (lastOp.panic <=> ~C1_InRange(lastOp))
    /\ (lastOp.op = "set" /\ lastOp.panic) => canvas.grid = lastOp.before
    /\ (lastOp.op = "set" /\ ~lastOp.panic) =>
          canvas.grid = [lastOp.before EXCEPT ![lastOp.y][lastOp.x] = lastOp.ch]
    /\ (lastOp.op = "get" /\ ~lastOp.panic) =>
          /\ lastOp.ch = lastOp.before[lastOp.y][lastOp.x]
          /\ canvas.grid = lastOp.before

\* a set_char exactly one column past the right edge panicked after an
\* earlier write had succeeded
C1_Witness ==
    /\ lastOp.op = "set"
    /\ lastOp.panic
    /\ lastOp.x = canvas.width
    /\ lastOp.y < canvas.height
    /\ \E y \in 0..(canvas.height - 1), x \in 0..(canvas.width - 1) :
          canvas.grid[y][x] # " "

(***************************************************************************)
(* C2: for a chart with at least one task, end >= start everywhere and a   *)
(* span of at least one day, every task layout has x_start <= x_end, the   *)
(* first task is at y = MARGIN_TOP, task i+1 is TASK_HEIGHT rows below     *)
(* task i, the layouts keep the input order, and the 3-row bars of two     *)
(* different tasks share no row.                                           *)
(***************************************************************************)
C2_BarRows(t) == t.y .. (t.y + TASK_HEIGHT - 1)

C2_TasksStacked ==
    ganttPc = "laid" =>
        LET tl == ganttLayout.task_layouts
        IN  /\ Len(tl) = Len(chart.tasks)
            /\ tl[1].y = GANTT_MARGIN_TOP
            /\ \A i \in DOMAIN tl :
                  /\ tl[i].x_start <= tl[i].x_end
                  /\ tl[i].name = chart.tasks[i].name
            /\ \A i \in 1..(Len(tl) - 1) : tl[i + 1].y = tl[i].y + TASK_HEIGHT
            /\ \A i, j \in DOMAIN tl :
                  i # j => C2_BarRows(tl[i]) \cap C2_BarRows(tl[j]) = {}

\* two tasks were laid out, the second one starting before the first
C2_Witness ==
    /\ ganttPc = "laid"
    /\ Len(chart.tasks) = 2
    /\ chart.tasks[2].start_date < chart.tasks[1].start_date
    /\ ganttLayout.task_layouts[2].x_start < ganttLayout.task_layouts[1].x_start
    /\ ganttLayout.task_layouts[2].y > ganttLayout.task_layouts[1].y

(***************************************************************************)
(* C3: with total_days >= 1 the column of min_date is exactly MARGIN_LEFT, *)
(* the column of max_date is exactly MARGIN_LEFT + CHART_WIDTH, and every  *)
(* task column lies between the two.                                       *)
(***************************************************************************)
C3_BoundaryColumnsExact ==
    ganttPc = "laid" =>
        LET tl    == ganttLayout.task_layouts
            range == find_date_range(chart)
        IN  /\ \E i \in DOMAIN tl : chart.tasks[i].start_date = range.min_date
            /\ \E i \in DOMAIN tl : chart.tasks[i].end_date = range.max_date
            /\ \A i \in DOMAIN tl :
                  /\ chart.tasks[i].start_date = range.min_date
                        => tl[i].x_start = GANTT_MARGIN_LEFT
                  /\ chart.tasks[i].end_date = range.max_date
                        => tl[i].x_end = GANTT_MARGIN_LEFT + CHART_WIDTH
                  /\ tl[i].x_start >= GANTT_MARGIN_LEFT
                  /\ tl[i].x_end <= GANTT_MARGIN_LEFT + CHART_WIDTH

\* a span of 7 days, which does not divide CHART_WIDTH, was laid out
C3_Witness ==
    /\ ganttPc = "laid"
    /\ total_days_of(chart) = 7
    /\ CHART_WIDTH % 7 # 0
    /\ \E i \in DOMAIN chart.tasks :
          /\ chart.tasks[i].end_date = find_date_range(chart).max_date
          /\ ganttLayout.task_layouts[i].x_end = GANTT_MARGIN_LEFT + CHART_WIDTH

(***************************************************************************)
(* C4 (as claimed): when every task starts and ends on the same date       *)
(* (total_days = 0), layout does not divide by zero and returns a layout.  *)
(***************************************************************************)
C4_ZeroSpanLaidOut ==
    (ganttPc # "parsed" /\ total_days_of(chart) = 0) => ganttPc = "laid"

C6_ExactColumn(d) ==
    GANTT_MARGIN_LEFT
        + ((d - find_date_range(chart).min_date) * CHART_WIDTH)
              \div total_days_of(chart)

C6_Dated ==
    LET tl == ganttLayout.task_layouts
    IN  {<<chart.tasks[i].start_date, tl[i].x_start>> : i \in DOMAIN tl}
            \cup {<<chart.tasks[i].end_date, tl[i].x_end>> : i \in DOMAIN tl}

C6_ColumnIsFloorOfExactRatio ==
    ganttPc = "laid" =>
        LET tl == ganttLayout.task_layouts
        IN  /\ \A p \in C6_Dated : p[2] = C6_ExactColumn(p[1])
            /\ \A p, q \in C6_Dated :
                  /\ p[1] <= q[1] => p[2] <= q[2]
                  /\ p[1] = q[1] => p[2] = q[2]
            /\ chart = FiveTaskChart =>
                  [i \in DOMAIN tl |-> <<tl[i].x_start, tl[i].x_end>>]
                     = << <<6, 19>>, <<19, 52>>, <<52, 69>>, <<69, 116>>,
                          <<116, 126>> >>

\* two tasks share a boundary date whose exact column is not a whole number
C6_Witness ==
    /\ ganttPc = "laid"
    /\ Len(chart.tasks) = 2
    /\ chart.tasks[1].end_date = chart.tasks[2].start_date
    /\ ((chart.tasks[1].end_date - find_date_range(chart).min_date)
            * CHART_WIDTH) % total_days_of(chart) # 0
    /\ ganttLayout.task_layouts[1].x_end = ganttLayout.task_layouts[2].x_start

(***************************************************************************)
(* C7: for non-empty participant names the boxes the renderer draws,       *)
(* columns left_x..right_x with left_x = center_x - (width+1)/2 + 1 and    *)
(* right_x = left_x + width - 1, are pairwise disjoint: i < j implies      *)
(* right_x(i) < left_x(j), and the centers strictly increase.  A finished  *)
(* render has the box corners in exactly these columns.                    *)
(***************************************************************************)
C7_BoxesDisjoint ==
    seqPc # "parsed" =>
        LET pls == seqLayout.participant_layouts
        IN  /\ \A i, j \in DOMAIN pls :
                  i < j => /\ box_right_x(pls[i]) < box_left_x(pls[j])
                           /\ pls[i].center_x < pls[j].center_x
            /\ \A i \in DOMAIN pls :
                  /\ box_left_x(pls[i]) =
                        pls[i].center_x - (pls[i].width + 1) \div 2 + 1
                  /\ box_left_x(pls[i]) >= 0
                  /\ seqPc = "rendered" =>
                        /\ canvas.grid[pls[i].top_box_y][box_left_x(pls[i])]
                              = GLYPH_TOP_LEFT
                        /\ canvas.grid[pls[i].top_box_y][box_right_x(pls[i])]
                              = GLYPH_TOP_RIGHT

\* three boxes were drawn, two of them touching and two held apart by a label
C7_Witness ==
    /\ seqPc = "rendered"
    /\ Len(seqLayout.participant_layouts) = 3
    /\ LET pls == seqLayout.participant_layouts
       IN  \E i, j \in 1..2 :
              /\ box_right_x(pls[i]) + 1 = box_left_x(pls[i + 1])
              /\ box_right_x(pls[j]) + 1 < box_left_x(pls[j + 1])

(***************************************************************************)
(* C8 (as claimed): for every labeled edge between two participants, the   *)
(* label's columns message_start_x .. message_start_x + width - 1 lie      *)
(* strictly right of right_x of the left participant's box and strictly    *)
(* left of left_x of the right participant's box.                          *)
(***************************************************************************)
C8_LeftIndex(e) ==
    Min(Position(diagram.participants, e.from, 1),
        Position(diagram.participants, e.to, 1))

C8_RightIndex(e) ==
    Max(Position(diagram.participants, e.from, 1),
        Position(diagram.participants, e.to, 1))

C8_LabelBetweenBoxes ==
    seqPc # "parsed" =>
        \A i \in DOMAIN seqLayout.edge_layouts :
            LET el  == seqLayout.edge_layouts[i]
                pls == seqLayout.participant_layouts
            IN  (el.message.some /\ diagram.edges[i].from # diagram.edges[i].to) =>
                  /\ message_start_x(el)
                        > box_right_x(pls[C8_LeftIndex(diagram.edges[i])])
                  /\ message_start_x(el) + Width(el.message.text) - 1
                        < box_left_x(pls[C8_RightIndex(diagram.edges[i])])

(***************************************************************************)
(* C8 (amended): for every labeled edge between two adjacent participants, *)
(* the label's columns lie strictly between the center (lifeline) columns  *)
(* of the two participants.                                                *)
(***************************************************************************)
C8_LabelBetweenLifelines ==
    seqPc # "parsed" =>
        \A i \in DOMAIN seqLayout.edge_layouts :
            LET el  == seqLayout.edge_layouts[i]
                pls == seqLayout.participant_layouts
                l   == C8_LeftIndex(diagram.edges[i])
                r   == C8_RightIndex(diagram.edges[i])
            IN  (el.message.some /\ r = l + 1) =>
                  /\ message_start_x(el) > pls[l].center_x
                  /\ message_start_x(el) + Width(el.message.text) - 1
                        < pls[r].center_x

\* a short and a long label between the same two adjacent participants were
\* rendered, the short one with room to spare on both sides
C8_Witness ==
    /\ seqPc = "rendered"
    /\ Len(seqLayout.edge_layouts) = 2
    /\ LET e1  == seqLayout.edge_layouts[1]
           e2  == seqLayout.edge_layouts[2]
           pls == seqLayout.participant_layouts
       IN  /\ e1.message.some /\ e2.message.some
           /\ Width(e1.message.text) < Width(e2.message.text)
           /\ C8_LeftIndex(diagram.edges[1]) = 1
           /\ C8_RightIndex(diagram.edges[1]) = 2
           /\ C8_LeftIndex(diagram.edges[2]) = 1
           /\ C8_RightIndex(diagram.edges[2]) = 2
           /\ message_start_x(e1) > pls[1].center_x + 1
           /\ canvas.grid[e1.y][message_start_x(e1)] = e1.message.text[1]

(***************************************************************************)
(* C9 (as claimed): for every diagram whose edges reference listed         *)
(* participants, render on the layout of calculate_sequence_layout uses    *)
(* only valid cells of the width x height canvas: no coordinate            *)
(* subtraction underflows and no set_char call is out of bounds, so render *)
(* never panics.                                                           *)
(***************************************************************************)
C9_RenderNeverPanics ==
    /\ seqPc # "panic-overflow"
    /\ seqPc # "panic-index"

(***************************************************************************)
(* C10: for an edge between distinct participants the direction is Right   *)
(* iff the source's index precedes the target's, else Left; draw_edge puts *)
(* '>' at target center - 1 for Right and '<' at target center + 1 for     *)
(* Left, on the arrow row, and once that call is made the cell keeps the   *)
(* arrowhead.  For `Client -> Server: Login` then                          *)
(* `Client <- Server: LoginSuccess`: Client is left of Server, the first   *)
(* arrowhead is next to Server, the second next to Client, and the second  *)
(* edge's row is below the first's.                                        *)
(***************************************************************************)
\* the number of set_char calls up to and including edge i's arrowhead
C10_HeadCall(i) ==
    Len(render_boxes_and_lifelines(overflowChecks, seqLayout))
      + Len(render_edges(overflowChecks, seqLayout, i - 1))
      + Len(draw_edge_line(seqLayout.edge_layouts[i]))

C10_ArrowheadAtTarget ==
    seqPc # "parsed" =>
        /\ \A i \in DOMAIN seqLayout.edge_layouts :
              LET e      == diagram.edges[i]
                  el     == seqLayout.edge_layouts[i]
                  from   == Position(diagram.participants, e.from, 1)
                  to     == Position(diagram.participants, e.to, 1)
                  target == seqLayout.participant_layouts[to].center_x
              IN  e.from # e.to =>
                    /\ el.direction = (IF from < to THEN "Right" ELSE "Left")
                    /\ arrow_head(el) = (IF from < to THEN ">" ELSE "<")
                    /\ arrowhead_x(el) =
                          (IF from < to THEN target - 1 ELSE target + 1)
                    /\ (seqPc # "laid" /\ written >= C10_HeadCall(i)) =>
                          canvas.grid[edge_y(el)]
                             [IF from < to THEN target - 1 ELSE target + 1]
                             = (IF from < to THEN ">" ELSE "<")
        /\ diagram = LoginDiagram =>
              /\ seqLayout.participant_layouts[1].name = Client
              /\ seqLayout.participant_layouts[2].name = Server
              /\ seqLayout.participant_layouts[1].center_x
                    < seqLayout.participant_layouts[2].center_x
              /\ seqLayout.edge_layouts[1].y < seqLayout.edge_layouts[2].y
              /\ seqPc # "laid" =>
                    /\ seqPc = "rendered"
                    /\ canvas.grid[edge_y(seqLayout.edge_layouts[1])]
                          [seqLayout.participant_layouts[2].center_x - 1] = ">"
                    /\ canvas.grid[edge_y(seqLayout.edge_layouts[2])]
                          [seqLayout.participant_layouts[1].center_x + 1] = "<"

\* the Client/Server scenario was rendered by a build with overflow checks
C10_Witness ==
    /\ seqPc = "rendered"
    /\ overflowChecks
    /\ diagram = LoginDiagram
    /\ seqLayout.edge_layouts[1].direction = "Right"
    /\ seqLayout.edge_layouts[2].direction = "Left"

(***************************************************************************)
(* DAG layering: graph::layout::build_adjacency_graph and assign_ranks.    *)
(* `nodes` is a HashSet and `in_degrees` a HashMap: the order in which the *)
(* zero-in-degree nodes are seeded into the queue is the map's iteration   *)
(* order, which the program does not control.                              *)
(***************************************************************************)
NodeNames == {"a", "b", "c"}

MaxGraphEdges == 3

\* mutant: a later edge out of the node does not extend its list
TargetsFrom_FirstOnly(edges, node, i) ==
    LET out == {j \in i..Len(edges) : edges[j].from = node}
    IN  IF out = {} THEN << >>
        ELSE <<edges[CHOOSE j \in out : \A k \in out : j <= k].to>>

\* the `to` of every edge out of node, in edge order, from edge i on
RECURSIVE TargetsFrom(_, _, _)
TargetsFrom(edges, node, i) ==
    IF i > Len(edges) THEN << >>
    ELSE (IF edges[i].from = node THEN <<edges[i].to>> ELSE << >>)
            \o TargetsFrom(edges, node, i + 1)

build_adjacency_graph(g) ==
    [node \in g.nodes \cup {g.edges[i].from : i \in DOMAIN g.edges} |->
        TargetsFrom(g.edges, node, 1)]

\* mutant: an edge from a node to itself is not counted
initial_in_degrees_IgnoringSelfLoops(g) ==
    [node \in g.nodes |->
        Cardinality({i \in DOMAIN g.edges :
                        g.edges[i].to = node /\ g.edges[i].from # node})]

\* mutant: a duplicate edge is counted once
initial_in_degrees_DistinctPredecessors(g) ==
    [node \in g.nodes |->
        Cardinality({g.edges[i].from : i \in {j \in DOMAIN g.edges : g.edges[j].to = node}})]

\* in_degrees after the two loops that fill it
initial_in_degrees(g) ==
    [node \in g.nodes |->
        Cardinality({i \in DOMAIN g.edges : g.edges[i].to = node})]

\* every order in which the nodes of S can come out of a hash map
SeedOrders(S) ==
    {order \in [1..Cardinality(S) -> S] :
        \A i, j \in DOMAIN order : i # j => order[i] # order[j]}

\* mutant: the degree is compared as it was before the decrement
neighbor_ready_BeforeDecrement(degree) == degree + 1 = 0

neighbor_ready(degree) == degree = 0

\* the loop over adjacency[node] from neighbor i on: [in_degrees, queue]
RECURSIVE VisitNeighbors(_, _, _, _)
VisitNeighbors(neighbors, i, degrees, q) ==
    IF i > Len(neighbors) THEN [in_degrees |-> degrees, queue |-> q]
    ELSE LET neighbor == neighbors[i]
             degree   == degrees[neighbor] - 1
         IN  VisitNeighbors(neighbors, i + 1,
                [degrees EXCEPT ![neighbor] = degree],
                IF neighbor_ready(degree) THEN Append(q, neighbor) ELSE q)

\* ranks.insert(node, rank)
RanksInsert(map, node, rank) ==
    [n \in DOMAIN map \cup {node} |-> IF n = node THEN rank ELSE map[n]]

\* mutant: every node is a layer of its own
current_layer_size_One(q) == 1

current_layer_size(q) == Len(q)

\* mutant: the rank is not advanced after a layer
next_rank_Same(rank) == rank

\* line 59
next_rank(rank) == rank + 1

(***************************************************************************)
(* SpecGraph: assign_ranks on a graph whose edge endpoints are nodes.      *)
(***************************************************************************)
GraphEdges(nodes) == {[from |-> f, to |-> t] : f \in nodes, t \in nodes}

Graphs ==
    UNION {{[nodes |-> nodes, edges |-> es] :
               es \in UNION {[1..k -> GraphEdges(nodes)] : k \in 0..MaxGraphEdges}} :
           nodes \in SUBSET NodeNames}

GraphInit ==
    /\ graph \in Graphs
    /\ graphPc = "start"
    /\ in_degrees = << >>
    /\ queue = << >>
    /\ ranks = << >>
    /\ current_rank = 0
    /\ layerLeft = 0
    /\ seeded = << >>
    /\ CanvasIdle
    /\ GanttIdle
    /\ SeqIdle
    /\ TextIdle
    /\ GanttParseIdle
    /\ GitIdle

\* lines 24-41: in_degrees is filled and the zero-in-degree nodes are queued
GraphSeed ==
    /\ graphPc = "start"
    /\ in_degrees' = initial_in_degrees(graph)
    /\ \E order \in SeedOrders({n \in graph.nodes :
                                  initial_in_degrees(graph)[n] = 0}) :
          /\ queue' = order
          /\ seeded' = order
    /\ ranks' = << >>
    /\ current_rank' = 0
    /\ graphPc' = "while"
    /\ UNCHANGED <<graph, layerLeft>>
    /\ UNCHANGED canvasVars
    /\ UNCHANGED ganttVars
    /\ UNCHANGED seqVars
    /\ UNCHANGED textVars
    /\ UNCHANGED ganttParseVars
    /\ UNCHANGED gitVars

\* lines 42-43: the queue is not empty, a layer begins
GraphLayer ==
    /\ graphPc = "while"
    /\ queue # << >>
    /\ layerLeft' = current_layer_size(queue)
    /\ graphPc' = "for"
    /\ UNCHANGED <<graph, in_degrees, queue, ranks, current_rank, seeded>>
    /\ UNCHANGED canvasVars
    /\ UNCHANGED ganttVars
    /\ UNCHANGED seqVars
    /\ UNCHANGED textVars
    /\ UNCHANGED ganttParseVars
    /\ UNCHANGED gitVars

\* lines 46-56: one node of the layer is popped, its neighbors visited
GraphVisit ==
    /\ graphPc = "for"
    /\ layerLeft > 0
    /\ LET node == Head(queue)
           r    == VisitNeighbors(build_adjacency_graph(graph)[node], 1,
                                  in_degrees, Tail(queue))
       IN  /\ in_degrees' = r.in_degrees
           /\ queue' = r.queue
           /\ ranks' = RanksInsert(ranks, node, current_rank)
    /\ layerLeft' = layerLeft - 1
    /\ UNCHANGED <<graph, graphPc, current_rank, seeded>>
    /\ UNCHANGED canvasVars
    /\ UNCHANGED ganttVars
    /\ UNCHANGED seqVars
    /\ UNCHANGED textVars
    /\ UNCHANGED ganttParseVars
    /\ UNCHANGED gitVars

\* line 59: the layer is drained
GraphLayerEnd ==
    /\ graphPc = "for"
    /\ layerLeft = 0
    /\ current_rank' = next_rank(current_rank)
    /\ graphPc' = "while"
    /\ UNCHANGED <<graph, in_degrees, queue, ranks, layerLeft, seeded>>
    /\ UNCHANGED canvasVars
    /\ UNCHANGED ganttVars
    /\ UNCHANGED seqVars
    /\ UNCHANGED textVars
    /\ UNCHANGED ganttParseVars
    /\ UNCHANGED gitVars

\* line 62: the queue is empty, ranks is returned
GraphReturn ==
    /\ graphPc = "while"
    /\ queue = << >>
    /\ graphPc' = "returned"
    /\ UNCHANGED <<graph, in_degrees, queue, ranks, current_rank, layerLeft,
                   seeded>>
    /\ UNCHANGED canvasVars
    /\ UNCHANGED ganttVars
    /\ UNCHANGED seqVars
    /\ UNCHANGED textVars
    /\ UNCHANGED ganttParseVars
    /\ UNCHANGED gitVars

GraphNext ==
    \/ GraphSeed
    \/ GraphLayer
    \/ GraphVisit
    \/ GraphLayerEnd
    \/ GraphReturn

SpecGraph == GraphInit /\ [][GraphNext]_vars

\* assign_ranks is a sequential function: it keeps running until it returns
SpecGraphFair == SpecGraph /\ WF_vars(GraphNext)

\* the nodes one edge away from a node of S
C11_Successors(S) ==
    {graph.edges[i].to : i \in {j \in DOMAIN graph.edges : graph.edges[j].from \in S}}

RECURSIVE C11_Closure(_)
C11_Closure(S) ==
    LET T == S \cup C11_Successors(S)
    IN  IF T = S THEN S ELSE C11_Closure(T)

\* the nodes reachable from node by a path of one edge or more
C11_ReachableFrom(node) == C11_Closure(C11_Successors({node}))

C11_OnCycle(node) == node \in C11_ReachableFrom(node)

C11_Acyclic == \A node \in graph.nodes : ~C11_OnCycle(node)

(***************************************************************************)
(* C11: for every acyclic graph whose edge endpoints are nodes (duplicate  *)
(* edges allowed), the map assign_ranks returns has a rank for every node  *)
(* and rank(u) < rank(v) for every edge u -> v.                            *)
(***************************************************************************)
C11_RanksIncreaseAlongEdges ==
    (graphPc = "returned" /\ C11_Acyclic) =>
        /\ DOMAIN ranks = graph.nodes
        /\ \A i \in DOMAIN graph.edges :
              ranks[graph.edges[i].from] < ranks[graph.edges[i].to]

\* an acyclic graph with a duplicate edge and a path of two edges was ranked
C11_Witness ==
    /\ graphPc = "returned"
    /\ C11_Acyclic
    /\ \E i, j \in DOMAIN graph.edges : i # j /\ graph.edges[i] = graph.edges[j]
    /\ \E n \in DOMAIN ranks : ranks[n] = 2

(***************************************************************************)
(* C12: for every graph with a cycle (a self-loop included) the returned   *)
(* rank map has fewer keys than the graph has nodes; the absent nodes are  *)
(* exactly those on a cycle or reachable from one, so the key count is     *)
(* below the node count iff the graph has a cycle.                         *)
(***************************************************************************)
C12_OnOrBehindCycle ==
    UNION {C11_ReachableFrom(node) : node \in {n \in graph.nodes : C11_OnCycle(n)}}

C12_CycleNodesAbsent ==
    graphPc = "returned" =>
        /\ graph.nodes \ DOMAIN ranks = C12_OnOrBehindCycle
        /\ DOMAIN ranks \subseteq graph.nodes
        /\ (Cardinality(DOMAIN ranks) < Cardinality(graph.nodes)) <=> ~C11_Acyclic
        /\ (\E i \in DOMAIN graph.edges : graph.edges[i].from = graph.edges[i].to)
              => Cardinality(DOMAIN ranks) < Cardinality(graph.nodes)

\* one node was ranked, one is on a cycle and one is only reachable from it
C12_Witness ==
    /\ graphPc = "returned"
    /\ Cardinality(graph.nodes) = 3
    /\ Cardinality(DOMAIN ranks) = 1
    /\ \E n \in graph.nodes \ DOMAIN ranks : ~C11_OnCycle(n)

(***************************************************************************)
(* C13 (as claimed): when a cyclic graph is passed to the layering stage,  *)
(* the stage reports the cycle to its caller and does not return a         *)
(* (partial) rank map.                                                     *)
(***************************************************************************)
C13_CycleReported ==
    ~C11_Acyclic => graphPc # "returned"

(***************************************************************************)
(* C15: the returned rank map is a function of the graph alone, whatever   *)
(* order the zero-in-degree nodes are queued in: every ranked node without *)
(* incoming edges has rank 0, every other ranked node has one more than    *)
(* the highest rank among its predecessors, and which nodes are ranked     *)
(* depends on the graph only.                                              *)
(***************************************************************************)
C15_Predecessors(node) ==
    {graph.edges[i].from : i \in {j \in DOMAIN graph.edges : graph.edges[j].to = node}}

C15_MaxOf(S) == CHOOSE m \in S : \A x \in S : x <= m

RECURSIVE C15_Layer(_)
C15_Layer(node) ==
    IF C15_Predecessors(node) = {} THEN 0
    ELSE 1 + C15_MaxOf({C15_Layer(p) : p \in C15_Predecessors(node)})

C15_RanksOfGraph ==
    [node \in graph.nodes \ C12_OnOrBehindCycle |-> C15_Layer(node)]

C15_RanksDeterministic ==
    graphPc = "returned" => ranks = C15_RanksOfGraph

\* the roots b and a were queued in this order, b's successor c before a's
\* successor, and the three nodes were ranked
C15_Witness ==
    /\ graphPc = "returned"
    /\ seeded = <<"b", "a">>
    /\ Cardinality(DOMAIN ranks) = 3
    /\ \E n \in DOMAIN ranks : ranks[n] = 1
    /\ Cardinality({n \in DOMAIN ranks : ranks[n] = 0}) = 2

(***************************************************************************)
(* tokenizer::tokenize and parser::parse.  A text is the sequence of its   *)
(* lines (the pieces between line feeds), a line a sequence of characters. *)
(***************************************************************************)
MAX_PARTICIPANT_LEN == 80

IsWhitespace(c) == c = " "

RECURSIVE TrimStart(_)
TrimStart(s) ==
    IF s # << >> /\ IsWhitespace(Head(s)) THEN TrimStart(Tail(s)) ELSE s

RECURSIVE TrimEnd(_)
TrimEnd(s) ==
    IF s # << >> /\ IsWhitespace(s[Len(s)])
    THEN TrimEnd(SubSeq(s, 1, Len(s) - 1)) ELSE s

\* str::trim on one line
Trim(s) == TrimEnd(TrimStart(s))

\* the regex ->|<- matches at position i
ArrowAt(s, i) ==
    /\ i + 1 <= Len(s)
    /\ \/ s[i] = "-" /\ s[i + 1] = ">"
       \/ s[i] = "<" /\ s[i + 1] = "-"

\* Regex::find from position i on: where the leftmost match starts, 0 if none
RECURSIVE FindArrow(_, _)
FindArrow(s, i) ==
    IF i > Len(s) THEN 0
    ELSE IF ArrowAt(s, i) THEN i
    ELSE FindArrow(s, i + 1)

\* str::find(':'): the position of the first colon, 0 if none
RECURSIVE FindColon(_, _)
FindColon(s, i) ==
    IF i > Len(s) THEN 0
    ELSE IF s[i] = ":" THEN i
    ELSE FindColon(s, i + 1)

TokenParticipant(name) == [kind |-> "Participant", text |-> name]

TokenArrowMessage(msg) == [kind |-> "ArrowMessage", text |-> msg]

TokenRightArrow == [kind |-> "RightArrow", text |-> << >>]

TokenLeftArrow == [kind |-> "LeftArrow", text |-> << >>]

TokenizeErr(line_number, message) ==
    [ok |-> FALSE, line |-> line_number, message |-> message]

TokenizeOk(tokens) == [ok |-> TRUE, tokens |-> tokens]

\* the message of the error validate_participant returns, "" for Ok
validate_participant(name, position) ==
    IF name = << >>
    THEN position \o " participant is empty."
    ELSE IF Len(name) > MAX_PARTICIPANT_LEN
    THEN position \o " participant is too long (max 80 characters)."
    ELSE ""

tokenize_line(line, line_number, tokens) ==
    LET start == FindArrow(line, 1)
    IN  IF start = 0
        THEN TokenizeErr(line_number, "Missing arrow ('->' or '<-')")
        ELSE IF FindArrow(line, start + 2) # 0
        THEN TokenizeErr(line_number,
                "Multiple arrows found. Expected exactly one arrow per line")
        ELSE
        LET first_participant == Trim(SubSeq(line, 1, start - 1))
            arrow == IF line[start] = "-" THEN TokenRightArrow ELSE TokenLeftArrow
            rest == Trim(SubSeq(line, start + 2, Len(line)))
            colon_pos == FindColon(rest, 1)
            second_participant ==
                IF colon_pos # 0 THEN Trim(SubSeq(rest, 1, colon_pos - 1)) ELSE rest
            message ==
                IF colon_pos # 0 THEN Trim(SubSeq(rest, colon_pos + 1, Len(rest)))
                ELSE << >>
        IN  IF validate_participant(first_participant, "First") # ""
            THEN TokenizeErr(line_number,
                             validate_participant(first_participant, "First"))
            ELSE IF validate_participant(second_participant, "Second") # ""
            THEN TokenizeErr(line_number,
                             validate_participant(second_participant, "Second"))
            ELSE TokenizeOk(tokens \o <<TokenParticipant(first_participant), arrow,
                                        TokenParticipant(second_participant)>>
                                   \o (IF message # << >>
                                       THEN <<TokenArrowMessage(message)>>
                                       ELSE << >>))

IsBlank(line) == Trim(line) = << >>

\* the lines of input.trim(): the blank lines before the first and after the
\* last line that is not blank are gone
RECURSIVE DropLeadingBlank(_)
DropLeadingBlank(lines) ==
    IF lines # << >> /\ IsBlank(Head(lines))
    THEN DropLeadingBlank(Tail(lines)) ELSE lines

RECURSIVE DropTrailingBlank(_)
DropTrailingBlank(lines) ==
    IF lines # << >> /\ IsBlank(lines[Len(lines)])
    THEN DropTrailingBlank(SubSeq(lines, 1, Len(lines) - 1)) ELSE lines

TrimmedLines(lines) == DropTrailingBlank(DropLeadingBlank(lines))

\* the loop of tokenize from line i (1-based) of the enumerated lines on
RECURSIVE TokenizeFrom(_, _, _)
TokenizeFrom(lines, i, tokens) ==
    IF i > Len(lines) THEN TokenizeOk(tokens)
    ELSE IF IsBlank(lines[i]) THEN TokenizeFrom(lines, i + 1, tokens)
    ELSE LET r == tokenize_line(Trim(lines[i]), i, tokens)
         IN  IF r.ok THEN TokenizeFrom(lines, i + 1, r.tokens) ELSE r

tokenize(input) == TokenizeFrom(TrimmedLines(input), 1, << >>)

ParseErr(message) ==
    [ok |-> FALSE, message |-> message, participants |-> << >>, edges |-> << >>]

Contains(list, x) == \E k \in DOMAIN list : list[k] = x

PushIfAbsent(list, x) == IF Contains(list, x) THEN list ELSE Append(list, x)

\* the while loop of parse from token i (1-based) on
RECURSIVE ParseFrom(_, _, _, _)
ParseFrom(tokens, i, participants, edges) ==
    IF i > Len(tokens)
    THEN [ok |-> TRUE, participants |-> participants, edges |-> edges]
    ELSE IF i + 2 > Len(tokens)
    THEN ParseErr("Incomplete edge. Expected at least 3 tokens")
    ELSE IF tokens[i].kind # "Participant" \/ tokens[i + 2].kind # "Participant"
    THEN ParseErr("Expected participant")
    ELSE IF tokens[i + 1].kind \notin {"RightArrow", "LeftArrow"}
    THEN ParseErr("Expected arrow")
    ELSE
    LET first_participant  == tokens[i].text
        second_participant == tokens[i + 2].text
        from_participant ==
            IF tokens[i + 1].kind = "RightArrow"
            THEN first_participant ELSE second_participant
        to_participant ==
            IF tokens[i + 1].kind = "RightArrow"
            THEN second_participant ELSE first_participant
        has_message ==
            i + 3 <= Len(tokens) /\ tokens[i + 3].kind = "ArrowMessage"
        message ==
            IF has_message THEN SomeMessage(tokens[i + 3].text) ELSE NoMessage
    IN  ParseFrom(tokens, i + 3 + (IF has_message THEN 1 ELSE 0),
                  PushIfAbsent(PushIfAbsent(participants, from_participant),
                               to_participant),
                  Append(edges, [from |-> from_participant,
                                 to |-> to_participant, message |-> message]))

parse(tokens) == ParseFrom(tokens, 1, << >>, << >>)

(***************************************************************************)
(* SpecText: tokenize on a text, then parse on the tokens.                 *)
(***************************************************************************)
MaxTextLines == 3

LongName == [k \in 1..(MAX_PARTICIPANT_LEN + 1) |-> "A"]

\* the lines a text is made of
TextLines ==
    { << >>,
      <<" ">>,
      <<"A", " ", "-", ">", " ", "B">>,
      <<"A", " ", "<", "-", " ", "B", ":", " ", "m">>,
      <<" ", "B", "-", ">", "C", ":">>,
      <<"C", "<", "-", "A", " ", "b", ":", "m", " ", "n">>,
      <<"A", " ", "B">>,
      <<"A", "-", ">", "B", "<", "-", "C">>,
      <<"-", ">", " ", "B">>,
      <<"A", " ", "-", ">", " ", ":", "m">>,
      <<"A", " ", "<", "-">>,
      <<"B", "-", ">">> \o LongName }

TextInit ==
    /\ seqInput \in UNION {[1..k -> TextLines] : k \in 0..MaxTextLines}
    /\ textPc = "input"
    /\ tokenized = TokenizeOk(<< >>)
    /\ parsed = [ok |-> TRUE, participants |-> << >>, edges |-> << >>]
    /\ CanvasIdle
    /\ GanttIdle
    /\ SeqIdle
    /\ GraphIdle
    /\ GanttParseIdle
    /\ GitIdle

TextTokenize ==
    /\ textPc = "input"
    /\ tokenized' = tokenize(seqInput)
    /\ textPc' = "tokenized"
    /\ UNCHANGED <<seqInput, parsed>>
    /\ UNCHANGED canvasVars
    /\ UNCHANGED ganttVars
    /\ UNCHANGED seqVars
    /\ UNCHANGED graphVars
    /\ UNCHANGED ganttParseVars
    /\ UNCHANGED gitVars

\* main.rs: parse is called when tokenize returned Ok
TextParse ==
    /\ textPc = "tokenized"
    /\ tokenized.ok
    /\ parsed' = parse(tokenized.tokens)
    /\ textPc' = "parsed"
    /\ UNCHANGED <<seqInput, tokenized>>
    /\ UNCHANGED canvasVars
    /\ UNCHANGED ganttVars
    /\ UNCHANGED seqVars
    /\ UNCHANGED graphVars
    /\ UNCHANGED ganttParseVars
    /\ UNCHANGED gitVars

TextNext ==
    \/ TextTokenize
    \/ TextParse

SpecText == TextInit /\ [][TextNext]_vars

(***************************************************************************)
(* C14 (as claimed): the participant list that tokenize followed by parse  *)
(* produces holds each participant once, in the order of its first         *)
(* appearance in the source text (each line read left to right, the lines  *)
(* top to bottom), whichever arrow the lines use.                          *)
(***************************************************************************)
\* the names of the participant tokens from token i on, each once, in order
RECURSIVE C14_FirstAppearance(_, _, _)
C14_FirstAppearance(tokens, i, seen) ==
    IF i > Len(tokens) THEN seen
    ELSE C14_FirstAppearance(tokens, i + 1,
            IF tokens[i].kind = "Participant" /\ ~Contains(seen, tokens[i].text)
            THEN Append(seen, tokens[i].text) ELSE seen)

C14_ParticipantsInTextOrder ==
    (textPc = "parsed" /\ parsed.ok) =>
        parsed.participants = C14_FirstAppearance(tokenized.tokens, 1, << >>)

(***************************************************************************)
(* C20 (as claimed): when tokenize fails, the error is the one of the      *)
(* first offending line of the input (missing arrow, more than one arrow,  *)
(* empty first or second participant, participant longer than 80) and its  *)
(* line is the 1-based number of that line in the input as given, also     *)
(* when the input begins with blank lines.                                 *)
(***************************************************************************)
C20_Offending(k) ==
    /\ ~IsBlank(seqInput[k])
    /\ ~tokenize_line(Trim(seqInput[k]), k, << >>).ok

C20_ErrorAtLineAsGiven ==
    (textPc = "tokenized" /\ ~tokenized.ok) =>
        \E k \in DOMAIN seqInput :
            /\ C20_Offending(k)
            /\ \A j \in 1..(k - 1) : ~C20_Offending(j)
            /\ tokenized.line = k
            /\ tokenized.message =
                  tokenize_line(Trim(seqInput[k]), k, << >>).message

(***************************************************************************)
(* gantt::parser::parse.  A date is the number of days since 01-01-2026;   *)
(* the dates of the texts drawn are dates of the year 2026.                *)
(***************************************************************************)
DigitValue ==
    [c \in {"0", "1", "2", "3", "4", "5", "6", "7", "8", "9"} |->
        CASE c = "0" -> 0 [] c = "1" -> 1 [] c = "2" -> 2 [] c = "3" -> 3
          [] c = "4" -> 4 [] c = "5" -> 5 [] c = "6" -> 6 [] c = "7" -> 7
          [] c = "8" -> 8 [] c = "9" -> 9]

IsDigits(s) == s # << >> /\ \A k \in DOMAIN s : s[k] \in DOMAIN DigitValue

\* the value of a non-empty sequence of decimal digits
RECURSIVE DigitsValue(_)
DigitsValue(s) ==
    IF s = << >> THEN 0
    ELSE 10 * DigitsValue(SubSeq(s, 1, Len(s) - 1)) + DigitValue[s[Len(s)]]

\* the days of the months of 2026
DaysInMonth == <<31, 28, 31, 30, 31, 30, 31, 31, 30, 31, 30, 31>>

RECURSIVE DaysBeforeMonth(_)
DaysBeforeMonth(m) ==
    IF m = 1 THEN 0 ELSE DaysBeforeMonth(m - 1) + DaysInMonth[m - 1]

\* NaiveDate::parse_from_str(s, "%d-%m-%Y") on a text DD-MM-2026
ParseDate(s) ==
    IF /\ Len(s) = 10
       /\ s[3] = "-" /\ s[6] = "-"
       /\ IsDigits(SubSeq(s, 1, 2)) /\ IsDigits(SubSeq(s, 4, 5))
       /\ SubSeq(s, 7, 10) = <<"2", "0", "2", "6">>
    THEN LET day   == DigitsValue(SubSeq(s, 1, 2))
             month == DigitsValue(SubSeq(s, 4, 5))
         IN  IF month \in 1..12 /\ day >= 1 /\ day <= DaysInMonth[month]
             THEN [ok |-> TRUE, date |-> DaysBeforeMonth(month) + day - 1]
             ELSE [ok |-> FALSE, date |-> 0]
    ELSE [ok |-> FALSE, date |-> 0]

\* str::parse::<i64>: an optional sign, then digits
ParseI64(s) ==
    IF s # << >> /\ s[1] \in {"+", "-"}
    THEN IF IsDigits(Tail(s))
         THEN [ok |-> TRUE,
               value |-> IF s[1] = "-" THEN 0 - DigitsValue(Tail(s))
                         ELSE DigitsValue(Tail(s))]
         ELSE [ok |-> FALSE, value |-> 0]
    ELSE IF IsDigits(s) THEN [ok |-> TRUE, value |-> DigitsValue(s)]
    ELSE [ok |-> FALSE, value |-> 0]

\* str::find: the position of the first c in s from i on, 0 if none
RECURSIVE FindChar(_, _, _)
FindChar(s, c, i) ==
    IF i > Len(s) THEN 0
    ELSE IF s[i] = c THEN i
    ELSE FindChar(s, c, i + 1)

\* str::split_once(c)
SplitOnce(s, c) ==
    LET pos == FindChar(s, c, 1)
    IN  IF pos = 0 THEN [some |-> FALSE, left |-> << >>, right |-> << >>]
        ELSE [some |-> TRUE, left |-> SubSeq(s, 1, pos - 1),
              right |-> SubSeq(s, pos + 1, Len(s))]

CONTINUE == <<"c", "o", "n", "t", "i", "n", "u", "e">>

GanttParseError(line_number, message, arg) ==
    [line |-> line_number, message |-> message, arg |-> arg]

NoGanttParseError == GanttParseError(0, "", << >>)

GanttErr(line_number, message, arg) ==
    [outcome |-> "err", error |-> GanttParseError(line_number, message, arg)]

\* mutant: a duration of no days is accepted
duration_rejected_OnlyNegative(days) == days < 0

duration_rejected(days) == days <= 0

\* parse_duration: [outcome "ok", days] or [outcome "err", error]
parse_duration(line_number, duration_str) ==
    IF duration_str = << >> \/ duration_str[Len(duration_str)] # "d"
    THEN GanttErr(line_number,
            "Invalid end date '{}'. Expected format: 'DD-MM-YYYY' or '<number>d'",
            duration_str)
    ELSE LET days == ParseI64(SubSeq(duration_str, 1, Len(duration_str) - 1))
         IN  IF ~days.ok
             THEN GanttErr(line_number, "Invalid number in duration", << >>)
             ELSE IF duration_rejected(days.value)
             THEN GanttErr(line_number, "Duration must be positive", << >>)
             ELSE [outcome |-> "ok", days |-> days.value]
\* mutant: `continue` takes the start of the previous task
continued_start_PreviousStart(tasks) == tasks[Len(tasks)].start_date

\* prev_task.end_date of the last task pushed
continued_start(tasks) == tasks[Len(tasks)].end_date

end_before_start(end_date, start_date) == end_date < start_date

\* the body of the loop of parse on one line: "skip", "ok" with the task
\* pushed, "err" with the error returned, or "panic"
parse_line(line_number, raw_line, tasks) ==
    LET line  == Trim(raw_line)
        colon == SplitOnce(line, ":")
        task_name == Trim(colon.left)
        comma == SplitOnce(colon.right, ",")
        start_date_str == Trim(comma.left)
        end_date_str   == Trim(comma.right)
        start_parsed == ParseDate(start_date_str)
        end_parsed   == ParseDate(end_date_str)
        start_date ==
            IF start_parsed.ok THEN start_parsed.date ELSE continued_start(tasks)
        duration == parse_duration(line_number, end_date_str)
        end_date ==
            IF end_parsed.ok THEN end_parsed.date ELSE start_date + duration.days
    IN  IF line = << >> THEN [outcome |-> "skip"]
        ELSE IF ~colon.some
        THEN GanttErr(line_number,
                "Missing colon. Expects format: 'Task: start_date, end_date'", << >>)
        ELSE IF task_name = << >>
        THEN GanttErr(line_number, "Task name cannot be empty", << >>)
        ELSE IF ~comma.some
        THEN GanttErr(line_number,
                "Missing delimiter. Expects format: 'Task: start_date, end_date'",
                << >>)
        ELSE IF ~start_parsed.ok /\ start_date_str # CONTINUE
        THEN GanttErr(line_number,
                "Invalid start date '{}'. Expected format: 'DD-MM-YYYY' or 'continue'",
                start_date_str)
        ELSE IF ~start_parsed.ok /\ tasks = << >>
        THEN GanttErr(line_number, "No previous task exists", << >>)
        ELSE IF ~end_parsed.ok /\ duration.outcome = "err"
        THEN duration
        ELSE IF ~end_parsed.ok /\ start_date + duration.days > NaiveDateMax
        THEN [outcome |-> "panic"]
        ELSE IF end_before_start(end_date, start_date)
        THEN GanttErr(line_number, "End date cannot be earlier than start date",
                      << >>)
        ELSE [outcome |-> "ok",
              task |-> [start_date |-> start_date, end_date |-> end_date,
                        name |-> task_name]]

(***************************************************************************)
(* SpecGanttParse: gantt::parser::parse on a text, one line per step.      *)
(***************************************************************************)
MaxGanttLines == 3

\* the lines a Gantt text is made of
GanttLines ==
    {
      \* (an empty line)
      <<>>,
      \* T: 01-01-2026, 05-01-2026
      <<"T", ":", " ", "0", "1", "-", "0", "1", "-", "2", "0", "2", "6",
        ",", " ", "0", "5", "-", "0", "1", "-", "2", "0", "2", "6">>,
      \* U: continue, 3d
      <<"U", ":", " ", "c", "o", "n", "t", "i", "n", "u", "e", ",", " ",
        "3", "d">>,
      \* U:05-01-2026,08-01-2026
      <<"U", ":", "0", "5", "-", "0", "1", "-", "2", "0", "2", "6", ",",
        "0", "8", "-", "0", "1", "-", "2", "0", "2", "6">>,
      \* U: 05-01-2026, 3d
      <<"U", ":", " ", "0", "5", "-", "0", "1", "-", "2", "0", "2", "6",
        ",", " ", "3", "d">>,
      \* V: continue, 08-01-2026
      <<"V", ":", " ", "c", "o", "n", "t", "i", "n", "u", "e", ",", " ",
        "0", "8", "-", "0", "1", "-", "2", "0", "2", "6">>,
      \* U: 05-01-2026, 04-01-2026
      <<"U", ":", " ", "0", "5", "-", "0", "1", "-", "2", "0", "2", "6",
        ",", " ", "0", "4", "-", "0", "1", "-", "2", "0", "2", "6">>,
      \* U: continue, 0d
      <<"U", ":", " ", "c", "o", "n", "t", "i", "n", "u", "e", ",", " ",
        "0", "d">>,
      \* U: 3d, 3d
      <<"U", ":", " ", "3", "d", ",", " ", "3", "d">>,
      \* U: 05-01-2026, -1d
      <<"U", ":", " ", "0", "5", "-", "0", "1", "-", "2", "0", "2", "6",
        ",", " ", "-", "1", "d">>,
      \* U: 31-02-2026, 3d
      <<"U", ":", " ", "3", "1", "-", "0", "2", "-", "2", "0", "2", "6",
        ",", " ", "3", "d">>,
      \* U: 05-01-2026, continue
      <<"U", ":", " ", "0", "5", "-", "0", "1", "-", "2", "0", "2", "6",
        ",", " ", "c", "o", "n", "t", "i", "n", "u", "e">>,
      \* U 05-01-2026
      <<"U", " ", "0", "5", "-", "0", "1", "-", "2", "0", "2", "6">>,
      \* : 01-01-2026, 3d
      <<":", " ", "0", "1", "-", "0", "1", "-", "2", "0", "2", "6", ",",
        " ", "3", "d">>,
      \* T: 01-01-2026
      <<"T", ":", " ", "0", "1", "-", "0", "1", "-", "2", "0", "2", "6">>,
      \* U: 05-01-2026, xd
      <<"U", ":", " ", "0", "5", "-", "0", "1", "-", "2", "0", "2", "6",
        ",", " ", "x", "d">>,
      \* U: 30-01-2026, 99999999d
      <<"U", ":", " ", "3", "0", "-", "0", "1", "-", "2", "0", "2", "6",
        ",", " ", "9", "9", "9", "9", "9", "9", "9", "9", "d">>
    }

GanttParseInit ==
    /\ ganttInput \in UNION {[1..k -> GanttLines] : k \in 0..MaxGanttLines}
    /\ gpIndex = 0
    /\ gpTasks = << >>
    /\ gpPc = "parsing"
    /\ gpError = NoGanttParseError
    /\ CanvasIdle
    /\ GanttIdle
    /\ SeqIdle
    /\ GraphIdle
    /\ TextIdle
    /\ GitIdle

\* lines 33-107: one turn of the loop
GanttParseLine ==
    /\ gpPc = "parsing"
    /\ gpIndex < Len(ganttInput)
    /\ LET r == parse_line(gpIndex + 1, ganttInput[gpIndex + 1], gpTasks)
       IN  /\ gpTasks' = IF r.outcome = "ok" THEN Append(gpTasks, r.task)
                         ELSE gpTasks
           /\ gpPc' = IF r.outcome \in {"err", "panic"} THEN r.outcome
                      ELSE "parsing"
           /\ gpError' = IF r.outcome = "err" THEN r.error ELSE gpError
    /\ gpIndex' = gpIndex + 1
    /\ UNCHANGED ganttInput
    /\ UNCHANGED canvasVars
    /\ UNCHANGED ganttVars
    /\ UNCHANGED seqVars
    /\ UNCHANGED graphVars
    /\ UNCHANGED textVars
    /\ UNCHANGED gitVars

\* line 109: Ok(GanttChart { tasks })
GanttParseReturn ==
    /\ gpPc = "parsing"
    /\ gpIndex = Len(ganttInput)
    /\ gpPc' = "ok"
    /\ UNCHANGED <<ganttInput, gpIndex, gpTasks, gpError>>
    /\ UNCHANGED canvasVars
    /\ UNCHANGED ganttVars
    /\ UNCHANGED seqVars
    /\ UNCHANGED graphVars
    /\ UNCHANGED textVars
    /\ UNCHANGED gitVars

GanttParseNext ==
    \/ GanttParseLine
    \/ GanttParseReturn

SpecGanttParse == GanttParseInit /\ [][GanttParseNext]_vars

\* the fields of line k of the text, as parse splits them
C16_Fields(k) ==
    LET line  == Trim(ganttInput[k])
        colon == SplitOnce(line, ":")
        comma == SplitOnce(colon.right, ",")
    IN  [blank |-> line = << >>,
         wellFormed |-> colon.some /\ Trim(colon.left) # << >> /\ comma.some,
         name  |-> Trim(colon.left),
         start |-> Trim(comma.left),
         end   |-> Trim(comma.right)]

(***************************************************************************)
(* C16: in the Gantt parser a task whose start field is `continue` starts  *)
(* on the end date of the task parsed immediately before it; with no task  *)
(* parsed yet, parse fails with "No previous task exists" and the 1-based  *)
(* number of that line; a start field that is neither a DD-MM-YYYY date    *)
(* nor `continue` fails with "Invalid start date".                         *)
(***************************************************************************)
C16_ContinueStartsAtPreviousEnd ==
    (gpIndex >= 1 /\ C16_Fields(gpIndex).wellFormed) =>
        LET f == C16_Fields(gpIndex)
            n == Len(gpTasks)
        IN  /\ (f.start = CONTINUE /\ gpPc \in {"parsing", "ok"}) =>
                  /\ n >= 2
                  /\ gpTasks[n].start_date = gpTasks[n - 1].end_date
                  /\ gpTasks[n].name = f.name
            /\ (f.start = CONTINUE /\ n = 0) =>
                  /\ gpPc = "err"
                  /\ gpError.line = gpIndex
                  /\ gpError.message = "No previous task exists"
            /\ (f.start # CONTINUE /\ ~ParseDate(f.start).ok) =>
                  /\ gpPc = "err"
                  /\ gpError.line = gpIndex
                  /\ gpError.message =
                        "Invalid start date '{}'. Expected format: 'DD-MM-YYYY' or 'continue'"
                  /\ gpError.arg = f.start

\* the third line says `continue` and its task starts where the second task
\* ends, which is not where the first ends
C16_Witness ==
    /\ gpPc = "ok"
    /\ gpIndex = 3
    /\ Len(gpTasks) = 3
    /\ C16_Fields(3).start = CONTINUE
    /\ gpTasks[3].start_date = gpTasks[2].end_date
    /\ gpTasks[2].end_date # gpTasks[1].end_date
    /\ gpTasks[2].end_date # gpTasks[2].start_date

(***************************************************************************)
(* C17: every chart the Gantt parser returns as Ok has end_date >=         *)
(* start_date for every task; an explicit end before the start is          *)
(* rejected; a duration `<n>d` is accepted only for n > 0 and gives end =  *)
(* start + n days; the tasks are in input order; and the same schedule     *)
(* written with explicit dates parses to the same task list.               *)
(***************************************************************************)
C17_DigitChar == <<"0", "1", "2", "3", "4", "5", "6", "7", "8", "9">>

C17_TwoDigits(n) == <<C17_DigitChar[(n \div 10) + 1], C17_DigitChar[(n % 10) + 1]>>

\* the text DD-MM-2026 of a day of 2026
C17_FormatDate(date) ==
    LET month == CHOOSE m \in 1..12 :
                    /\ DaysBeforeMonth(m) <= date
                    /\ date < DaysBeforeMonth(m) + DaysInMonth[m]
    IN  C17_TwoDigits(date - DaysBeforeMonth(month) + 1) \o <<"-">>
          \o C17_TwoDigits(month) \o <<"-", "2", "0", "2", "6">>

\* the schedule written with explicit dates, one line per task
C17_ExplicitText(tasks) ==
    [k \in DOMAIN tasks |->
        tasks[k].name \o <<":", " ">> \o C17_FormatDate(tasks[k].start_date)
          \o <<",", " ">> \o C17_FormatDate(tasks[k].end_date)]

\* the tasks of a text every line of which is accepted
RECURSIVE C17_ParseAll(_, _, _)
C17_ParseAll(lines, k, tasks) ==
    IF k > Len(lines) THEN tasks
    ELSE LET r == parse_line(k, lines[k], tasks)
         IN  IF r.outcome = "ok" THEN C17_ParseAll(lines, k + 1, Append(tasks, r.task))
             ELSE IF r.outcome = "skip" THEN C17_ParseAll(lines, k + 1, tasks)
             ELSE << >>

\* the lines of the text that are not blank, in order
C17_TaskLines == SelectSeq([k \in DOMAIN ganttInput |-> k],
                           LAMBDA k : ~C16_Fields(k).blank)

C17_OkChartsWellFormed ==
    /\ gpPc = "ok" =>
          /\ \A k \in DOMAIN gpTasks :
                gpTasks[k].end_date >= gpTasks[k].start_date
          /\ Len(gpTasks) = Len(C17_TaskLines)
          /\ \A k \in DOMAIN gpTasks :
                gpTasks[k].name = C16_Fields(C17_TaskLines[k]).name
          /\ C17_ParseAll(C17_ExplicitText(gpTasks), 1, << >>) = gpTasks
    /\ (gpIndex >= 1 /\ C16_Fields(gpIndex).wellFormed) =>
          LET f == C16_Fields(gpIndex)
              n == Len(gpTasks)
              number == ParseI64(SubSeq(f.end, 1, Len(f.end) - 1))
          IN  /\ (gpPc \in {"parsing", "ok"} /\ ~ParseDate(f.end).ok) =>
                    /\ f.end[Len(f.end)] = "d"
                    /\ number.ok
                    /\ number.value > 0
                    /\ gpTasks[n].end_date = gpTasks[n].start_date + number.value
              /\ (ParseDate(f.start).ok /\ ParseDate(f.end).ok
                    /\ ParseDate(f.end).date < ParseDate(f.start).date) =>
                    /\ gpPc = "err"
                    /\ gpError.line = gpIndex
                    /\ gpError.message = "End date cannot be earlier than start date"

\* a chart of three tasks was returned: one written with explicit dates, one
\* with `continue` and a duration, one of no days at all
C17_Witness ==
    /\ gpPc = "ok"
    /\ Len(gpTasks) = 3
    /\ \E k \in DOMAIN ganttInput :
          C16_Fields(k).start = CONTINUE /\ ~ParseDate(C16_Fields(k).end).ok
    /\ \E k \in DOMAIN ganttInput :
          ParseDate(C16_Fields(k).start).ok /\ ParseDate(C16_Fields(k).end).ok
    /\ \E k \in DOMAIN gpTasks : gpTasks[k].end_date = gpTasks[k].start_date
    /\ C17_ExplicitText(gpTasks) # ganttInput

(***************************************************************************)
(* git_graph::parser::parse.  The loop reads the text one line at a time   *)
(* and never looks ahead, so the text is drawn line by line as it is read. *)
(***************************************************************************)
MAIN == <<"m", "a", "i", "n">>

ACTION_COMMIT == <<"c", "o", "m", "m", "i", "t">>

ACTION_BRANCH == <<"b", "r", "a", "n", "c", "h">>

ACTION_CHECKOUT == <<"c", "h", "e", "c", "k", "o", "u", "t">>

ACTION_MERGE == <<"m", "e", "r", "g", "e">>

NoName == [some |-> FALSE, name |-> << >>]

SomeName(name) == [some |-> TRUE, name |-> name]

NoBase == [some |-> FALSE, index |-> 0]

SomeBase(index) == [some |-> TRUE, index |-> index]

init_git_graph == [name \in {MAIN} |-> [commits |-> << >>, base_commit |-> NoBase]]

\* HashMap::insert
GraphInsert(g, name, branch) ==
    [n \in DOMAIN g \cup {name} |-> IF n = name THEN branch ELSE g[n]]

\* mutant: the pushed commit takes the place of the branch's commits
PushCommit_Replacing(g, name, commit) ==
    [g EXCEPT ![name].commits = <<commit>>]

\* current_branch.commits.push(commit)
PushCommit(g, name, commit) ==
    [g EXCEPT ![name].commits = Append(@, commit)]

GitErr(line_number, message, arg) ==
    [outcome |-> "err",
     error |-> [line |-> line_number, message |-> message, arg |-> arg]]

GitStep(g, branch_name, index) ==
    [outcome |-> "ok", git_graph |-> g, current_branch_name |-> branch_name,
     current_index |-> index]

\* mutant: the counter is not advanced after a merge commit
index_after_merge_Unchanged(index) == index

index_after_merge(index) == index + 1

\* mutant: the new branch is based on the first commit of the current branch
base_index_FirstCommit(commits) ==
    IF commits = << >> THEN NoBase ELSE SomeBase(commits[1].index)

\* commits.last().map(|commit| commit.index)
base_index(commits) ==
    IF commits = << >> THEN NoBase ELSE SomeBase(commits[Len(commits)].index)

\* mutant: the merge commit names the current branch as its origin
merge_commit_FromCurrent(index, target_branch_name, branch_name) ==
    [index |-> index,
     message |-> [format |-> "Merge branch {} into branch {}",
                  args |-> <<target_branch_name, branch_name>>],
     merged_from |-> SomeName(branch_name)]

\* lines 161-169: the commit a merge pushes
merge_commit(index, target_branch_name, branch_name) ==
    [index |-> index,
     message |-> [format |-> "Merge branch {} into branch {}",
                  args |-> <<target_branch_name, branch_name>>],
     merged_from |-> SomeName(target_branch_name)]

\* the body of the loop of parse on one line
git_parse_line(line_number, raw_line, g, branch_name, index) ==
    LET line   == Trim(raw_line)
        split  == SplitOnce(line, " ")
        action == Trim(split.left)
        rest   == Trim(split.right)
    IN  IF line = << >> THEN GitStep(g, branch_name, index)
        ELSE IF ~split.some THEN GitErr(line_number, "Invalid syntax", << >>)
        ELSE IF action = ACTION_COMMIT
        THEN GitStep(PushCommit(g, branch_name,
                        [index |-> index,
                         message |-> [format |-> "{}", args |-> <<rest>>],
                         merged_from |-> NoName]),
                     branch_name, index + 1)
        ELSE IF action = ACTION_BRANCH
        THEN IF rest \in DOMAIN g
             THEN GitErr(line_number,
                         "Cannot create new branch. Branch {} already exists", rest)
             ELSE IF ~base_index(g[branch_name].commits).some
             THEN GitErr(line_number,
                    "Cannot create a new branch. Current branch ({}) has no commits yet",
                    branch_name)
             ELSE GitStep(GraphInsert(g, rest,
                             [commits |-> << >>,
                              base_commit |-> base_index(g[branch_name].commits)]),
                          rest, index)
        ELSE IF action = ACTION_CHECKOUT
        THEN IF rest \in DOMAIN g
             THEN GitStep(g, rest, index)
             ELSE GitErr(line_number, "Branch {} does not exist", rest)
        ELSE IF action = ACTION_MERGE
        THEN IF rest = branch_name
             THEN GitErr(line_number, "Cannot merge branch {} into itself", rest)
             ELSE IF rest \notin DOMAIN g
             THEN GitErr(line_number, "Branch {} does not exist", rest)
             ELSE IF g[rest].commits = << >>
             THEN GitErr(line_number,
                         "Cannot merge branch {} because it has no commits", rest)
             ELSE GitStep(PushCommit(g, branch_name,
                                     merge_commit(index, rest, branch_name)),
                          branch_name, index_after_merge(index))
        ELSE GitErr(line_number, "Invalid syntax: expected '<action> <name>'", << >>)

(***************************************************************************)
(* SpecGit: git_graph::parser::parse, one line per step.                   *)
(***************************************************************************)
MaxGitLines == 5

\* the lines a git-graph text is made of
GitLines ==
    { << >>,
      <<" ", "c", "o", "m", "m", "i", "t", " ", " ", "n", " ">>,
      <<"b", "r", "a", "n", "c", "h", " ", "x">>,
      <<"b", "r", "a", "n", "c", "h", " ", "y">>,
      <<"c", "h", "e", "c", "k", "o", "u", "t", " ", "m", "a", "i", "n">>,
      <<"c", "h", "e", "c", "k", "o", "u", "t", " ", "x">>,
      <<"m", "e", "r", "g", "e", " ", "x">>,
      <<"m", "e", "r", "g", "e", " ", "m", "a", "i", "n">>,
      <<"c", "o", "m", "m", "i", "t">>,
      <<"t", "a", "g", " ", "v">> }

NoGitError == [line |-> 0, message |-> "", arg |-> << >>]

\* lines 45-47
GitInit ==
    /\ gitInput = << >>
    /\ git_graph = init_git_graph
    /\ current_branch_name = MAIN
    /\ current_index = 0
    /\ gitPc = "parsing"
    /\ gitError = NoGitError
    /\ CanvasIdle
    /\ GanttIdle
    /\ SeqIdle
    /\ GraphIdle
    /\ TextIdle
    /\ GanttParseIdle

\* lines 49-179: one turn of the loop, on the next line of the text
GitParseLine ==
    /\ gitPc = "parsing"
    /\ Len(gitInput) < MaxGitLines
    /\ \E line \in GitLines :
          LET r == git_parse_line(Len(gitInput) + 1, line, git_graph,
                                  current_branch_name, current_index)
          IN  /\ gitInput' = Append(gitInput, line)
              /\ IF r.outcome = "ok"
                 THEN /\ git_graph' = r.git_graph
                      /\ current_branch_name' = r.current_branch_name
                      /\ current_index' = r.current_index
                      /\ UNCHANGED <<gitPc, gitError>>
                 ELSE /\ gitPc' = "err"
                      /\ gitError' = r.error
                      /\ UNCHANGED <<git_graph, current_branch_name, current_index>>
    /\ UNCHANGED canvasVars
    /\ UNCHANGED ganttVars
    /\ UNCHANGED seqVars
    /\ UNCHANGED graphVars
    /\ UNCHANGED textVars
    /\ UNCHANGED ganttParseVars

\* line 181: the text has no more lines, Ok(git_graph)
GitParseReturn ==
    /\ gitPc = "parsing"
    /\ gitPc' = "ok"
    /\ UNCHANGED <<gitInput, git_graph, current_branch_name, current_index, gitError>>
    /\ UNCHANGED canvasVars
    /\ UNCHANGED ganttVars
    /\ UNCHANGED seqVars
    /\ UNCHANGED graphVars
    /\ UNCHANGED textVars
    /\ UNCHANGED ganttParseVars

GitNext ==
    \/ GitParseLine
    \/ GitParseReturn

SpecGit == GitInit /\ [][GitNext]_vars

(***************************************************************************)
(* Claims on the git-graph parser.                                         *)
(***************************************************************************)
C18_Action(line) == Trim(SplitOnce(Trim(line), " ").left)

C18_Rest(line) == Trim(SplitOnce(Trim(line), " ").right)

\* the lines read so far that are commit or merge lines, in text order
C18_IndexLines ==
    SelectSeq(gitInput,
              LAMBDA line : C18_Action(line) \in {ACTION_COMMIT, ACTION_MERGE})

C18_AllCommits ==
    UNION {{<<name, i>> : i \in 1..Len(git_graph[name].commits)} :
           name \in DOMAIN git_graph}

C18_CommitAt(ref) == git_graph[ref[1]].commits[ref[2]]

\* C18: while a text is accepted, the commits of all branches carry the
\* indices 0..N-1 without duplicates, N being the number of commit and merge
\* lines read (so branch and checkout lines take no index); the commit with
\* index k was made by the k-th such line; and the indices of one branch
\* increase strictly in the branch's commit order.
C18_IndicesFromOneCounter ==
    gitPc \in {"parsing", "ok"} =>
        /\ current_index = Len(C18_IndexLines)
        /\ Cardinality(C18_AllCommits) = current_index
        /\ {C18_CommitAt(ref).index : ref \in C18_AllCommits} = 0..(current_index - 1)
        /\ \A ref \in C18_AllCommits :
              LET commit == C18_CommitAt(ref)
                  line   == C18_IndexLines[commit.index + 1]
              IN  IF commit.merged_from.some
                  THEN /\ C18_Action(line) = ACTION_MERGE
                       /\ C18_Rest(line) = commit.merged_from.name
                  ELSE /\ C18_Action(line) = ACTION_COMMIT
                       /\ commit.message.args = <<C18_Rest(line)>>
        /\ \A name \in DOMAIN git_graph :
              \A i, j \in 1..Len(git_graph[name].commits) :
                  i < j => git_graph[name].commits[i].index
                              < git_graph[name].commits[j].index

\* an accepted text with a branch line, a checkout line, a merge commit and
\* commits on two branches
C18_Witness ==
    /\ gitPc = "ok"
    /\ current_index = 3
    /\ \E line \in GitLines :
          /\ C18_Action(line) = ACTION_CHECKOUT
          /\ \E k \in 1..Len(gitInput) : gitInput[k] = line
    /\ \E name \in DOMAIN git_graph :
          /\ name # MAIN
          /\ git_graph[name].commits # << >>
    /\ \E i \in 1..Len(git_graph[MAIN].commits) :
          /\ git_graph[MAIN].commits[i].merged_from.some
          /\ git_graph[MAIN].commits[i].index = 2

\* the step that reads a line `branch X`
C19_BranchStep ==
    /\ gitPc = "parsing"
    /\ Len(gitInput') = Len(gitInput) + 1
    /\ C18_Action(gitInput'[Len(gitInput')]) = ACTION_BRANCH
    => LET X       == C18_Rest(gitInput'[Len(gitInput')])
           commits == git_graph[current_branch_name].commits
       IN  IF X \in DOMAIN git_graph \/ commits = << >>
           THEN /\ gitPc' = "err"
                /\ gitError'.line = Len(gitInput')
           ELSE /\ gitPc' = "parsing"
                /\ DOMAIN git_graph' = DOMAIN git_graph \cup {X}
                /\ git_graph'[X].commits = << >>
                /\ git_graph'[X].base_commit = SomeBase(commits[Len(commits)].index)
                /\ \A name \in DOMAIN git_graph : git_graph'[name] = git_graph[name]
                /\ current_branch_name' = X

C19_OkBases ==
    gitPc = "ok" =>
        /\ ~git_graph[MAIN].base_commit.some
        /\ \A name \in DOMAIN git_graph \ {MAIN} :
              /\ git_graph[name].base_commit.some
              /\ \A i \in 1..Len(git_graph[name].commits) :
                    git_graph[name].base_commit.index
                        < git_graph[name].commits[i].index

\* C19: a line `branch X` is rejected when X exists or the current branch has
\* no commit of its own; otherwise it creates X without commits, based on the
\* index of the last commit of the branch that was current, and makes X the
\* current branch.  In every accepted text main has no base commit and every
\* other branch has a base commit below the index of each of its own commits.
C19_BranchCommand == [][C19_BranchStep]_vars /\ []C19_OkBases

\* an accepted text whose branch was created after two commits and has a
\* commit of its own
C19_Witness ==
    /\ gitPc = "ok"
    /\ \E name \in DOMAIN git_graph :
          /\ name # MAIN
          /\ git_graph[name].base_commit = SomeBase(1)
          /\ Len(git_graph[name].commits) = 1
          /\ git_graph[name].commits[1].index = 2

(***************************************************************************)
(* Claims on the vertical extent of the sequence layout.                   *)
(***************************************************************************)
C21_Labeled == {i \in 1..Len(diagram.edges) : diagram.edges[i].message.some}

C21_Unlabeled == {i \in 1..Len(diagram.edges) : ~diagram.edges[i].message.some}

\* C21 as stated: the height is one row of spacing, 1 row per unlabeled edge,
\* 2 rows per labeled edge, the two participant boxes and the two margins.
C21_HeightAsStated ==
    seqPc # "parsed" =>
        seqLayout.height = 1 + Cardinality(C21_Unlabeled) + 2 * Cardinality(C21_Labeled)
                             + 2 * PARTICIPANT_HEIGHT + MARGIN_TOP + MARGIN_BOTTOM

\* C21 (amended): the height is one row of spacing before the first edge, then
\* for each edge its rows (1 if unlabeled, 2 if labeled) and one more row of
\* spacing after it, the two participant boxes and the two margins.
C21_HeightWithSpacingPerEdge ==
    seqPc # "parsed" =>
        seqLayout.height = 1 + 2 * Cardinality(C21_Unlabeled) + 3 * Cardinality(C21_Labeled)
                             + 2 * PARTICIPANT_HEIGHT + MARGIN_TOP + MARGIN_BOTTOM

\* a laid out diagram with a labeled and an unlabeled edge
C21_Witness ==
    /\ seqPc = "laid"
    /\ C21_Labeled # {}
    /\ C21_Unlabeled # {}
    /\ seqLayout.height = 14

C22_InInputOrder ==
    /\ Len(seqLayout.edge_layouts) = Len(diagram.edges)
    /\ \A k \in 1..Len(diagram.edges) :
          /\ seqLayout.edge_layouts[k].message = diagram.edges[k].message
          /\ seqLayout.edge_layouts[k].direction = arrow_direction(diagram, diagram.edges[k])

\* C22 as stated: edge layouts are in input order and the row of edge k+1 is
\* the row of edge k plus 1, plus 1 more when edge k is labeled.
C22_RowsAsStated ==
    seqPc # "parsed" =>
        /\ C22_InInputOrder
        /\ \A k \in 1..(Len(diagram.edges) - 1) :
              seqLayout.edge_layouts[k + 1].y =
                  seqLayout.edge_layouts[k].y + 1
                      + (IF diagram.edges[k].message.some THEN 1 ELSE 0)

\* C22 (amended): edge layouts are in input order, the first row is the one
\* after the header boxes and one row of spacing, and the row of edge k+1 is
\* the row of edge k plus EDGE_SPACING + 1 = 2, plus 1 more when edge k is
\* labeled; so rows increase strictly in source order.
C22_RowsAdvanceWithSpacing ==
    seqPc # "parsed" =>
        /\ C22_InInputOrder
        /\ Len(diagram.edges) > 0 =>
              seqLayout.edge_layouts[1].y = MARGIN_TOP + PARTICIPANT_HEIGHT + 1
        /\ \A k \in 1..(Len(diagram.edges) - 1) :
              seqLayout.edge_layouts[k + 1].y =
                  seqLayout.edge_layouts[k].y + 2
                      + (IF diagram.edges[k].message.some THEN 1 ELSE 0)
        /\ \A j, k \in 1..Len(diagram.edges) :
              j < k => seqLayout.edge_layouts[j].y < seqLayout.edge_layouts[k].y

\* a laid out diagram whose labeled first edge is followed by an unlabeled one
C22_Witness ==
    /\ seqPc = "laid"
    /\ Len(diagram.edges) >= 2
    /\ diagram.edges[1].message.some
    /\ ~diagram.edges[2].message.some
    /\ seqLayout.edge_layouts[2].y = 8

(***************************************************************************)
(* Claims on the axis ticks of the gantt layout.                           *)
(***************************************************************************)
C23_MinDate ==
    CHOOSE m \in {chart.tasks[i].start_date : i \in DOMAIN chart.tasks} :
        \A i \in DOMAIN chart.tasks : m <= chart.tasks[i].start_date

C23_MaxDate ==
    CHOOSE m \in {chart.tasks[i].end_date : i \in DOMAIN chart.tasks} :
        \A i \in DOMAIN chart.tasks : m >= chart.tasks[i].end_date

C23_Count ==
    IF CHART_WIDTH \div MIN_TICK_SPACING >= 2
    THEN CHART_WIDTH \div MIN_TICK_SPACING ELSE 2

DigitChars == <<"0", "1", "2", "3", "4", "5", "6", "7", "8", "9">>

TwoDigits(n) == <<DigitChars[(n \div 10) + 1], DigitChars[(n % 10) + 1]>>

\* date.format("%d-%m-%Y").to_string()
format_date(date) ==
    LET month == CHOOSE m \in 1..12 :
                    /\ DaysBeforeMonth(m) <= date
                    /\ date < DaysBeforeMonth(m) + DaysInMonth[m]
    IN  TwoDigits(date - DaysBeforeMonth(month) + 1) \o <<"-">>
          \o TwoDigits(month) \o <<"-", "2", "0", "2", "6">>

\* line 65: x_end - x_start - 1 (below zero: the wrapped value)
box_internal_width(tl) == tl.x_end - tl.x_start - 1

\* lines 81-85
name_start_x(tl) ==
    IF ULess(box_internal_width(tl), Width(tl.name))
    THEN tl.x_end + 1
    ELSE IF Width(tl.name) = 0 THEN -1
    ELSE tl.x_start + (box_internal_width(tl) + 1) \div 2
            - (Width(tl.name) - 1) \div 2

\* lines 87-93: the chars written before `break`
name_chars_written(start_x, name, width) ==
    LET stop == {i \in 0..(Len(name) - 1) : ~ULess(start_x + i, width)}
    IN  IF stop = {} THEN Len(name)
        ELSE CHOOSE i \in stop : \A j \in stop : i <= j

\* the subtractions of draw_task that go below zero
draw_task_underflows(tl) ==
    \/ box_internal_width(tl) < 0
    \/ /\ ~ULess(box_internal_width(tl), Width(tl.name))
       /\ \/ Width(tl.name) = 0
          \/ name_start_x(tl) < 0

gantt_draw_task(checks, tl, width) ==
    IF checks /\ draw_task_underflows(tl) THEN << OverflowOp >>
    ELSE << Cell(tl.x_start, tl.y, GLYPH_TOP_LEFT) >>
         \o HRule(tl.x_start + 1, tl.x_end, tl.y, GLYPH_HORIZONTAL)
         \o << Cell(tl.x_end, tl.y, GLYPH_TOP_RIGHT) >>
         \o << Cell(tl.x_start, tl.y + 1, "|") >>
         \o HRule(tl.x_start + 1, tl.x_end, tl.y + 1, " ")
         \o TextOps(name_start_x(tl), tl.y + 1,
                    SubSeq(tl.name, 1,
                           name_chars_written(name_start_x(tl), tl.name, width)))
         \o << Cell(tl.x_end, tl.y + 1, "|") >>
         \o << Cell(tl.x_start, tl.y + 2, GLYPH_BOTTOM_LEFT) >>
         \o HRule(tl.x_start + 1, tl.x_end, tl.y + 2, GLYPH_HORIZONTAL)
         \o << Cell(tl.x_end, tl.y + 2, GLYPH_BOTTOM_RIGHT) >>

\* line 110
date_start_x(tick) == tick.x - Width(format_date(tick.date)) \div 2

gantt_draw_tick(checks, tick, height) ==
    IF checks /\ height - GANTT_MARGIN_BOTTOM < 0 THEN << OverflowOp >>
    ELSE [k \in 1..Max(0, height - GANTT_MARGIN_BOTTOM + 1 - (GANTT_MARGIN_TOP - 1)) |->
             Cell(tick.x, GANTT_MARGIN_TOP - 1 + k - 1, "|")]
         \o (IF checks /\ date_start_x(tick) < 0 THEN << OverflowOp >>
             ELSE TextOps(date_start_x(tick), height - GANTT_MARGIN_BOTTOM + 1,
                          format_date(tick.date)))

gantt_render_calls(checks, lay) ==
    Flatten([i \in 1..Len(lay.tick_layouts) |->
                gantt_draw_tick(checks, lay.tick_layouts[i], lay.height)], 1)
    \o Flatten([i \in 1..Len(lay.task_layouts) |->
                gantt_draw_task(checks, lay.task_layouts[i], lay.width)], 1)

gantt_render(checks, lay) ==
    RunCalls(CanvasNew(lay.width, lay.height), gantt_render_calls(checks, lay))

(***************************************************************************)
(* SpecGanttRender: a parsed chart is laid out and rendered, in a build    *)
(* with or without overflow checks.                                        *)
(***************************************************************************)
MaxRenderTasks == 2
MaxRenderDay == 2

RenderNames == {<<"T">>, <<"T", "a", "s", "k">>,
                <<"I", "m", "p", "l", "e", "m", "e", "n", "t", "a", "t", "i", "o", "n">>}

\* a long task and a one-day task at either end of it
EdgeCharts ==
    UNION {{[tasks |-> <<[start_date |-> 0, end_date |-> span, name |-> n],
                         [start_date |-> span - 1, end_date |-> span, name |-> m]>>],
            [tasks |-> <<[start_date |-> 0, end_date |-> 1, name |-> m],
                         [start_date |-> 0, end_date |-> span, name |-> n]>>]} :
           span \in {30, 100, 250}, n \in TaskNames, m \in RenderNames}

RenderCharts ==
    {FiveTaskChart} \cup EdgeCharts \cup
    {[tasks |-> t] : t \in
        {q \in UNION {[1..n -> [start_date : 0..MaxRenderDay, end_date : 0..MaxRenderDay,
                                name : TaskNames]] : n \in 1..MaxRenderTasks} :
            \A i \in DOMAIN q : q[i].start_date <= q[i].end_date}}

GanttRenderInit ==
    /\ chart \in RenderCharts
    /\ ganttPc = "parsed"
    /\ ganttLayout = NoGanttLayout
    /\ overflowChecks \in BOOLEAN
    /\ written = 0
    /\ diagram = [participants |-> <<>>, edges |-> <<>>]
    /\ seqPc = "idle"
    /\ seqLayout = NoSeqLayout
    /\ canvas = NoCanvas
    /\ canvasKind = "gantt"
    /\ lastOp = NoOp
    /\ opCount = 0
    /\ GraphIdle
    /\ TextIdle
    /\ GanttParseIdle
    /\ GitIdle

GanttRender ==
    /\ ganttPc = "laid"
    /\ canvasKind = "gantt"
    /\ LET r == gantt_render(overflowChecks, ganttLayout)
       IN  /\ canvas' = r.canvas
           /\ written' = r.written
           /\ ganttPc' = r.outcome
    /\ UNCHANGED <<chart, ganttLayout>>
    /\ UNCHANGED <<diagram, overflowChecks, seqPc, seqLayout>>
    /\ UNCHANGED <<canvasKind, lastOp, opCount>>
    /\ UNCHANGED graphVars
    /\ UNCHANGED textVars
    /\ UNCHANGED ganttParseVars
    /\ UNCHANGED gitVars

GanttRenderNext ==
    \/ GanttLayout
    \/ GanttRender

SpecGanttRender == GanttRenderInit /\ [][GanttRenderNext]_vars

(***************************************************************************)
(* Claims on the gantt renderer.                                           *)
(***************************************************************************)
\* the name of task layout tl is on the canvas from column start_x on
C24_NameAt(tl, start_x) ==
    \A k \in 1..Len(tl.name) :
        /\ start_x + k - 1 < canvas.width
        /\ canvas.grid[tl.y + 1][start_x + k - 1] = tl.name[k]

\* C24: on a rendered chart, a name wider than the interior of its bar
\* (x_end - x_start - 1) is on the bar's middle row from column x_end + 1 on,
\* every character of it; any other name is inside the bar, centered.
C24_NameFlowsPastBorderWhole ==
    ganttPc = "rendered" =>
        \A i \in 1..Len(ganttLayout.task_layouts) :
            LET tl == ganttLayout.task_layouts[i]
                interior == tl.x_end - tl.x_start - 1
            IN  tl.x_start < tl.x_end =>
                    IF Width(tl.name) > interior
                    THEN C24_NameAt(tl, tl.x_end + 1)
                    ELSE \E start_x \in (tl.x_start + 1)..(tl.x_end - Len(tl.name)) :
                            /\ C24_NameAt(tl, start_x)
                            /\ LET left  == start_x - tl.x_start - 1
                                   right == tl.x_end - (start_x + Len(tl.name))
                               IN  left - right \in {-1, 0, 1}

\* C25: a chart with at least one task and a span of at least one day is
\* rendered to the end: no set_char call is outside the canvas of layout and
\* no subtraction of draw_task or draw_tick goes below zero.
C25_RenderCompletes ==
    (ganttPc \notin {"parsed", "laid", "panic"} /\ total_days_of(chart) >= 1) =>
        /\ ganttPc = "rendered"
        /\ \A i \in 1..Len(ganttLayout.task_layouts) :
              ~draw_task_underflows(ganttLayout.task_layouts[i])
        /\ \A i \in 1..Len(ganttLayout.tick_layouts) :
              date_start_x(ganttLayout.tick_layouts[i]) >= 0

(***************************************************************************)
(* Claims on the ranks of assign_ranks and on its termination.             *)
(***************************************************************************)
C26_HasEdge(u, v) ==
    \E i \in DOMAIN graph.edges : graph.edges[i].from = u /\ graph.edges[i].to = v

\* the paths from a node without incoming edges to node, as node sequences
C26_PathsTo(node) ==
    {p \in UNION {[1..k -> graph.nodes] : k \in 1..Cardinality(graph.nodes)} :
        /\ p[Len(p)] = node
        /\ C15_Predecessors(p[1]) = {}
        /\ \A i \in 1..(Len(p) - 1) : C26_HasEdge(p[i], p[i + 1])}

C26_Shortest(node) ==
    CHOOSE n \in {Len(p) - 1 : p \in C26_PathsTo(node)} :
        \A p \in C26_PathsTo(node) : n <= Len(p) - 1

C26_Longest(node) ==
    CHOOSE n \in {Len(p) - 1 : p \in C26_PathsTo(node)} :
        \A p \in C26_PathsTo(node) : n >= Len(p) - 1

\* C26 as stated: on an acyclic graph the rank of a node is the number of
\* edges on a shortest path from a node without incoming edges to it.
C26_RankIsShortestDistance ==
    (graphPc = "returned" /\ C11_Acyclic) =>
        /\ DOMAIN ranks = graph.nodes
        /\ \A node \in graph.nodes : ranks[node] = C26_Shortest(node)

\* C26 (amended): on an acyclic graph the rank of a node is the number of
\* edges on a longest path from a node without incoming edges to it (0 for
\* the nodes without incoming edges).
C26_RankIsLongestDistance ==
    (graphPc = "returned" /\ C11_Acyclic) =>
        /\ DOMAIN ranks = graph.nodes
        /\ \A node \in graph.nodes : ranks[node] = C26_Longest(node)

\* a ranked node that a source reaches by one edge and by two
C26_Witness ==
    /\ graphPc = "returned"
    /\ C11_Acyclic
    /\ \E node \in DOMAIN ranks :
          /\ C26_Shortest(node) = 1
          /\ C26_Longest(node) = 2
          /\ ranks[node] = 2

\* C27: on an acyclic graph, the nodes of rank 0 are exactly those without
\* incoming edges, every other node has 1 + the highest rank among its
\* predecessors, and the ranks in use are 0..max with no rank left out.
C27_RanksFollowPredecessors ==
    (graphPc = "returned" /\ C11_Acyclic) =>
        /\ DOMAIN ranks = graph.nodes
        /\ \A node \in graph.nodes :
              /\ ranks[node] = 0 <=> C15_Predecessors(node) = {}
              /\ C15_Predecessors(node) # {} =>
                    /\ \A p \in C15_Predecessors(node) : ranks[p] + 1 <= ranks[node]
                    /\ \E p \in C15_Predecessors(node) : ranks[p] + 1 = ranks[node]
        /\ \A node \in graph.nodes :
              \A r \in 0..ranks[node] : \E m \in graph.nodes : ranks[m] = r

\* three ranked nodes, two of them without incoming edges, one with both as
\* predecessors
C27_Witness ==
    /\ graphPc = "returned"
    /\ C11_Acyclic
    /\ Cardinality(DOMAIN ranks) = 3
    /\ \E node \in DOMAIN ranks :
          /\ Cardinality(C15_Predecessors(node)) = 2
          /\ ranks[node] = 1

C28_QueueSet == {queue[i] : i \in DOMAIN queue}

\* no node is queued twice or queued again after it was popped, no counter
\* is below zero, and there are no more layers than nodes
C28_Bounded ==
    graphPc \notin {"idle", "start"} =>
        /\ Cardinality(C28_QueueSet) = Len(queue)
        /\ C28_QueueSet \cap DOMAIN ranks = {}
        /\ C28_QueueSet \subseteq graph.nodes
        /\ \A node \in graph.nodes : in_degrees[node] >= 0
        /\ current_rank <= Cardinality(graph.nodes)

\* a node is popped once: it has no rank yet when it is popped
C28_PoppedOnce ==
    (graphPc = "for" /\ layerLeft > 0 /\ layerLeft' = layerLeft - 1)
        => (Head(queue) \notin DOMAIN ranks /\ Head(queue) \in DOMAIN ranks')

\* C28: assign_ranks returns on every graph whose edge endpoints are nodes,
\* cyclic or not; each node is queued and popped at most once, no in-degree
\* goes below zero, and there are at most as many layers as nodes.
C28_Terminates ==
    /\ <>(graphPc = "returned")
    /\ []C28_Bounded
    /\ [][C28_PoppedOnce]_vars

\* assign_ranks returned on a cyclic graph with a duplicate edge, after as
\* many layers as it ranked nodes
C28_Witness ==
    /\ graphPc = "returned"
    /\ ~C11_Acyclic
    /\ \E i, j \in DOMAIN graph.edges : i # j /\ graph.edges[i] = graph.edges[j]
    /\ current_rank = 2
    /\ Cardinality(DOMAIN ranks) = 2

(***************************************************************************)
(* Claims on merge, checkout and the branch table of the git-graph parser. *)
(***************************************************************************)
\* the step that reads a line `merge T`
C29_MergeStep ==
    /\ gitPc = "parsing"
    /\ Len(gitInput') = Len(gitInput) + 1
    /\ C18_Action(gitInput'[Len(gitInput')]) = ACTION_MERGE
    => LET T == C18_Rest(gitInput'[Len(gitInput')])
       IN  IF \/ T = current_branch_name
              \/ T \notin DOMAIN git_graph
              \/ git_graph[T].commits = << >>
           THEN /\ gitPc' = "err"
                /\ gitError'.line = Len(gitInput')
                /\ gitError'.arg = T
           ELSE /\ gitPc' = "parsing"
                /\ DOMAIN git_graph' = DOMAIN git_graph
                /\ git_graph'[current_branch_name].commits =
                      Append(git_graph[current_branch_name].commits,
                             [index |-> current_index,
                              message |-> [format |-> "Merge branch {} into branch {}",
                                           args |-> <<T, current_branch_name>>],
                              merged_from |-> SomeName(T)])
                /\ git_graph'[current_branch_name].base_commit =
                      git_graph[current_branch_name].base_commit
                /\ \A name \in DOMAIN git_graph \ {current_branch_name} :
                      git_graph'[name] = git_graph[name]
                /\ current_branch_name' = current_branch_name
                /\ current_index' = current_index + 1

\* the step that reads a line `checkout T`
C29_CheckoutStep ==
    /\ gitPc = "parsing"
    /\ Len(gitInput') = Len(gitInput) + 1
    /\ C18_Action(gitInput'[Len(gitInput')]) = ACTION_CHECKOUT
    => LET T == C18_Rest(gitInput'[Len(gitInput')])
       IN  IF T \notin DOMAIN git_graph
           THEN /\ gitPc' = "err"
                /\ gitError'.line = Len(gitInput')
                /\ gitError'.message = "Branch {} does not exist"
           ELSE gitPc' = "parsing"

\* an error is returned at the line that was read last and in place of the
\* graph; an accepted text returns no error
C29_ErrorOnly ==
    /\ gitPc = "err" => (gitError # NoGitError /\ gitError.line = Len(gitInput))
    /\ gitPc # "err" => gitError = NoGitError

\* C29: an accepted `merge T` pushes one commit onto the current branch, with
\* merged_from T, the message "Merge branch T into branch <current>" and the
\* next index, and changes neither T nor the current branch; `merge T` is
\* rejected when T is the current branch, is unknown or has no commits, and
\* `checkout T` when T is unknown; parse reads nothing after the first
\* rejected line and returns the error alone.
C29_MergeAndCheckout ==
    /\ [][C29_MergeStep]_vars
    /\ [][C29_CheckoutStep]_vars
    /\ [][gitPc = "parsing"]_vars
    /\ []C29_ErrorOnly

\* a merge was accepted, then a merge of the current branch into itself was
\* rejected
C29_Witness ==
    /\ gitPc = "err"
    /\ gitError.message = "Cannot merge branch {} into itself"
    /\ \E name \in DOMAIN git_graph :
          \E i \in 1..Len(git_graph[name].commits) :
              git_graph[name].commits[i].merged_from.some

C30_BranchesKept ==
    /\ DOMAIN git_graph \subseteq DOMAIN git_graph'
    /\ \A name \in DOMAIN git_graph :
          /\ Len(git_graph[name].commits) <= Len(git_graph'[name].commits)
          /\ SubSeq(git_graph'[name].commits, 1, Len(git_graph[name].commits))
                = git_graph[name].commits
          /\ git_graph'[name].base_commit = git_graph[name].base_commit

C30_CurrentBranchExists ==
    gitPc # "idle" =>
        /\ current_branch_name \in DOMAIN git_graph
        /\ MAIN \in DOMAIN git_graph

\* C30: whatever lines were read, the current branch is a key of the graph
\* and main exists; no step removes or renames a branch, and the commits a
\* branch has are kept, in order and unchanged, by every later step.
C30_BranchTableGrowsOnly == []C30_CurrentBranchExists /\ [][C30_BranchesKept]_vars

\* three branches with a commit each, the last created one current
C30_Witness ==
    /\ Cardinality(DOMAIN git_graph) = 3
    /\ \A name \in DOMAIN git_graph : Len(git_graph[name].commits) = 1
    /\ current_branch_name # MAIN
    /\ git_graph[current_branch_name].base_commit = SomeBase(1)

====
